---- MODULE Spec2Model ----
(***************************************************************************)
(* Model of the WeChat publish pipeline of obsidian-md2mp-unite:           *)
(* the content-addressed upload cache (uploadedImageCache, uploadImage),   *)
(* the image rewriter (uploadContentImages), cover resolution, and the     *)
(* orchestration publishToWechat.                                          *)
(*                                                                         *)
(* JavaScript runs one continuation at a time: an invocation runs without  *)
(* interruption from the point an awaited promise settles to its next      *)
(* await.  `running` names the invocation whose synchronous code is        *)
(* executing; callbacks of the event loop (responses, new invocations)     *)
(* fire only when it is None.                                              *)
(***************************************************************************)
EXTENDS Integers, Sequences, FiniteSets, TLC

\* ------------------------------------------------------------------ bounds
MaxTicks == 3      \* how many times the clock advances in a behaviour
MaxImgs == 3       \* longest document (in <img> tags) of the rewriter spec
MaxLiveImgs == 2   \* longest document of the completion spec
MaxDepth == 3      \* most names in a path of the path spec
MaxApplied == 2    \* how many times the resolution is applied to a path
MaxLen == 3        \* longest embedded-link content, in characters

\* --------------------------------------------------------------- constants
None == "none"
NoPath == <<>>             \* an unset path (undefined or "")
Procs == {"p1", "p2"}      \* publishToWechat invocations that may overlap

\* 3 * 24 * 60 * 60 * 1000 ms, the validity of a cache entry
cacheMaxAge == 3 * 24 * 60 * 60 * 1000

\* the clock advances by one of these amounts (ms)
TickSteps == {1, cacheMaxAge - 1}

\* application error codes and messages a response may carry
ErrCodes == {40001, 45009}
ErrMsgs == {"invalid credential", "reach max api daily quota limit"}

\* ------------------------------------------------------------------- files
\* Paths are sequences of segments, the drive first (host convention).
basePath == <<"K:", "vault", "note.md">>
pluginPath == <<"K:", "vault", ".obsidian", "plugins", "obsidian-md2mp-unite">>
PathA == <<"K:", "vault", "a.png">>
PathB == <<"K:", "vault", "b.png">>
PathCopy == <<"K:", "vault", "copy.png">>
ConfiguredCover == <<"K:", "covers", "my.jpg">>
BundledJpg == pluginPath \o <<"assets", "default-cover.jpg">>
BundledPng == pluginPath \o <<"assets", "default-cover.png">>
Paths == {PathA, PathB, PathCopy, ConfiguredCover, BundledJpg, BundledPng}
FileStates == {"ok", "unreadable", "missing"}

\* The bytes stored at a path.  copy.png and the configured default cover
\* are copies of a.png: the same bytes under another file name.
Content(path) ==
    CASE path = PathA -> "bytesA"
      [] path = PathCopy -> "bytesA"
      [] path = PathB -> "bytesB"
      [] path = ConfiguredCover -> "bytesA"
      [] path = BundledJpg -> "bytesJ"
      [] OTHER -> "bytesP"

ExplicitCoverBytes == "bytesC"
Buffers == {"bytesA", "bytesB", "bytesJ", "bytesP", "bytesC"}

\* md5 of the bytes, hex: one digest per distinct content
getFileHash(buffer) ==
    CASE buffer = "bytesA" -> "hashA"
      [] buffer = "bytesB" -> "hashB"
      [] buffer = "bytesJ" -> "hashJ"
      [] buffer = "bytesP" -> "hashP"
      [] OTHER -> "hashC"

Hashes == {getFileHash(b) : b \in Buffers}

\* ------------------------------------------------------------------- html
\* A src attribute value is modelled by its pieces between "/" characters:
\* "file:///K:/vault/a.png" is <<"file:", "", "", "K:", "vault", "a.png">>,
\* "/vault/a.png" is <<"", "vault", "a.png">>, "a.png" is <<"a.png">>.
SrcRelA == <<"a.png">>
SrcRelB == <<"b.png">>
SrcRelCopy == <<"copy.png">>
SrcFileA == <<"file:", "", "", "K:", "vault", "a.png">>
SrcMmbiz == <<"https:", "", "mmbiz.qpic.cn", "old.png">>
SrcHttp == <<"http:", "", "example.com", "x.png">>
SrcData == <<"data:image", "png;base64,AAAA">>

Drives == {"K:"}
DataPrefixed == {"data:image"}    \* first pieces that start with "data:"

ImgTag(src) == [tag |-> "img", src |-> src]

\* a tag that is not an <img> and has a src attribute, <source src="...">
OtherTag(src) == [tag |-> "source", src |-> src]

\* the piece of text is an <img ...> tag, a match of imgRegex
IsImg(item) == item.tag = "img"

\* the url and media_id the platform assigns to its n-th stored material
UrlOf(n) == <<"http:", "", "mmbiz.qpic.cn", ToString(n)>>
MediaIdOf(n) == <<"media", ToString(n)>>

\* src.startsWith("https://mmbiz.qpic.cn")
IsWechatUrl(src) ==
    Len(src) >= 3 /\ src[1] = "https:" /\ src[2] = "" /\ src[3] = "mmbiz.qpic.cn"

\* src.startsWith("http://") || src.startsWith("https://")
IsNetworkUrl(src) ==
    Len(src) >= 3 /\ src[1] \in {"http:", "https:"} /\ src[2] = ""

\* src.startsWith("data:")
IsDataUri(src) == Len(src) >= 1 /\ src[1] \in DataPrefixed

\* (mutant) the data: test is missing
IsSkipped_NoData(src) == IsWechatUrl(src) \/ IsNetworkUrl(src)

\* the three `continue` tests at the head of the loop body
IsSkipped(src) == IsWechatUrl(src) \/ IsNetworkUrl(src) \/ IsDataUri(src)

\* src.startsWith("file:///")
IsFileUrl(src) ==
    Len(src) >= 4 /\ src[1] = "file:" /\ src[2] = "" /\ src[3] = ""

\* path.resolve on segments: "." and empty pieces dropped, ".." pops a
\* segment but never the drive
RECURSIVE Normalize(_, _)
Normalize(done, rest) ==
    IF rest = <<>> THEN done
    ELSE LET s == Head(rest) IN
         IF s = "." \/ s = "" THEN Normalize(done, Tail(rest))
         ELSE IF s = ".."
              THEN Normalize(IF Len(done) > 1 THEN SubSeq(done, 1, Len(done) - 1)
                             ELSE done, Tail(rest))
              ELSE Normalize(Append(done, s), Tail(rest))

\* the working directory of the host process
cwd == <<"K:", "app">>

\* path.resolve(p): a path that names its drive is normalised; a path rooted
\* at "/" takes the drive of the working directory; any other path is
\* relative to the working directory
resolve(segs) ==
    IF segs # <<>> /\ Head(segs) \in Drives
    THEN Normalize(<<Head(segs)>>, Tail(segs))
    ELSE IF segs # <<>> /\ Head(segs) = ""
         THEN Normalize(<<Head(cwd)>>, segs)
         ELSE Normalize(cwd, segs)

dirname(path) == SubSeq(path, 1, Len(path) - 1)

\* the local path of a non-skipped src
ImagePathOf(src, base) ==
    IF IsFileUrl(src)
    THEN resolve(SubSeq(src, 4, Len(src)))
    ELSE IF base # NoPath /\ ~(src[1] = "") /\ ~(Len(src) > 1 /\ src[1] \in Drives)
         THEN Normalize(dirname(resolve(base)), src)
         ELSE resolve(src)

\* imagePath.split(/[/\\]/).pop() || fallback
FilenameOf(path, fallback) ==
    IF path # <<>> /\ path[Len(path)] # "" THEN path[Len(path)] ELSE fallback

\* updatedHtml.replace(srcRegex, 'src="' + url + '"') with the g flag:
\* every src="..." in the text that equals the reference is rewritten
ReplaceSrc(html, src, url) ==
    [j \in DOMAIN html |->
        IF html[j].src = src THEN [html[j] EXCEPT !.src = url] ELSE html[j]]

\* ------------------------------------------------------------- file system
FileState(files, path) == IF path \in DOMAIN files THEN files[path] ELSE "missing"
existsSync(files, path) == FileState(files, path) # "missing"
CanRead(files, path) == FileState(files, path) = "ok"

\* --------------------------------------------------------------- responses
\* What a request may come back with: a JSON body (errcode 0 stands for an
\* absent or zero errcode), a transport failure (requestUrl rejects, the
\* https request emits 'error'), or a body that is not JSON.
JsonOk == [kind |-> "json", errcode |-> 0, errmsg |-> ""]
JsonErrs == {[kind |-> "json", errcode |-> c, errmsg |-> m] : c \in ErrCodes, m \in ErrMsgs}
Transport == [kind |-> "transport", errcode |-> 0, errmsg |-> ""]
Unparsable == [kind |-> "unparsable", errcode |-> 0, errmsg |-> ""]
Responses == {JsonOk, Transport, Unparsable} \cup JsonErrs

NoResponse == [kind |-> None, errcode |-> 0, errmsg |-> ""]

\* data.errcode && data.errcode !== 0
HasErrcode(r) == r.errcode # 0

\* Errors by the text their message starts with.
\*   "token"     获取 Access Token 失败: code - msg
\*   "upload"    上传图片失败: code - msg
\*   "parse"     解析响应失败: ...
\*   "request"   请求失败: ...
\*   "publish"   发布文章失败: code - msg
\*   "cover"     缺少封面图。...
\*   "raw"       the transport's or JSON parser's own message
Err(text, code, msg) == [text |-> text, code |-> code, msg |-> msg]

VARIABLES
    theme,                \* this.plugin.settings.theme
    originalTheme,        \* per publish click: the theme its handler saved, or None
    currentTheme,         \* per publish click: the theme chosen in the modal, or None
    handler,              \* per publish click: where the click handler is
    now,                  \* Date.now()
    ticks,                \* clock advances so far
    uploadedImageCache,   \* Map from hash to CachedImage
    serial,               \* materials the platform has stored
    uploadLog,            \* history: successful network uploads, in order
    fs,                   \* path -> state of the file
    running,              \* invocation executing synchronous code, or None
    pc,                   \* per invocation: the stage it is in
    htmlContent,          \* per invocation: the input document
    coverImageBuffer,     \* per invocation: explicit cover bytes or None
    defaultCoverPath,     \* per invocation: configured default cover or NoPath
    settings,             \* per invocation: this.settings (appId, appSecret)
    env,                  \* process.env (MP_APP_ID, MP_APP_SECRET)
    data,                 \* per invocation: front matter (title, author, description)
    host,                 \* the platform of the path module: "win32" or "posix"
    text,                 \* the string a pure function is applied to
    result,               \* what the function returned
    applied,              \* how many times it has been applied
    access_token,
    updatedHtml,
    idx,                  \* position of the next <img> match in htmlContent
    firstLocalImagePath,
    call,                 \* the uploadImage call the invocation awaits
    finalCoverBuffer,
    thumb,                \* media_id returned by the cover upload
    outcome,              \* what publishToWechat delivered to its caller
    stages,               \* history: stages entered, in order
    warnings,             \* history: console.error lines of the rewriter
    reqs,                 \* history: network requests issued
    reads,                \* history: readFileSync calls (paths)
    resp,                 \* history: the last response to a request of a stage
    cacheOps,             \* history: the invocation's Map.delete and Map.set calls
    failed                \* history: matches whose read or upload failed

vars == <<theme, originalTheme, currentTheme, handler, now, ticks, uploadedImageCache, serial, uploadLog, fs, running, pc,
          htmlContent, coverImageBuffer, defaultCoverPath, settings, env, data,
          host, text, result, applied, access_token,
          updatedHtml, idx, firstLocalImagePath, call, finalCoverBuffer,
          thumb, outcome, stages, warnings, reqs, reads, resp, cacheOps,
          failed>>

clockVars == <<now, ticks>>
\* the string functions' variables, which no step of the pipeline touches
pureVars == <<host, text, result, applied>>
\* the preview modal's variables, which no step of the pipeline touches
modalVars == <<theme, originalTheme, currentTheme, handler>>

\* what an invocation is given, and everything else the pipeline only reads
inputVars == <<fs, htmlContent, coverImageBuffer, defaultCoverPath, settings,
               env, data, pureVars, modalVars>>

NoCall == [hash |-> None, hit |-> FALSE, url |-> <<>>, media_id |-> <<>>,
           at |-> 0, logLen |-> 0, reqsBefore |-> 0, entryAge |-> -1,
           filename |-> "", token |-> None]


\* ------------------------------------------------------------------- cache
\* uploadedImageCache is a Map: a function whose domain is the set of keys.

\* (mutant) an entry aged exactly cacheMaxAge still counts as fresh
IsFresh_Inclusive(c, h, t) == h \in DOMAIN c /\ t - c[h].timestamp <= cacheMaxAge

\* (mutant) the age test the wrong way round
IsFresh_Inverted(c, h, t) == h \in DOMAIN c /\ t - c[h].timestamp > cacheMaxAge

\* (mutant) no age test: an entry is used however old it is
IsFresh_NoExpiry(c, h, t) == h \in DOMAIN c

\* cacheAge < cacheMaxAge for the entry of h, if there is one
IsFresh(c, h, t) == h \in DOMAIN c /\ t - c[h].timestamp < cacheMaxAge

\* uploadedImageCache.delete(fileHash)
CacheDelete(c, h) == [k \in DOMAIN c \ {h} |-> c[k]]

\* (mutant) a hit refreshes the timestamp of the entry
CacheAfterLookup_Touch(c, h, t) ==
    IF h \in DOMAIN c
    THEN (IF IsFresh(c, h, t) THEN [c EXCEPT ![h].timestamp = t] ELSE CacheDelete(c, h))
    ELSE c

\* uploadedImageCache after the lookup of uploadImage: an entry found
\* expired is deleted
CacheAfterLookup(c, h, t) ==
    IF h \in DOMAIN c /\ ~IsFresh(c, h, t) THEN CacheDelete(c, h) ELSE c

\* (mutant) the first writer wins: an entry already there is kept
CacheSet_FirstWins(c, h, url, media_id, t) ==
    IF h \in DOMAIN c THEN c
    ELSE [k \in DOMAIN c \cup {h} |->
            IF k = h THEN [url |-> url, media_id |-> media_id, timestamp |-> t] ELSE c[k]]

\* uploadedImageCache.set(fileHash, {url, media_id, timestamp: Date.now()})
CacheSet(c, h, url, media_id, t) ==
    [k \in DOMAIN c \cup {h} |->
        IF k = h THEN [url |-> url, media_id |-> media_id, timestamp |-> t] ELSE c[k]]

\* what a cache hit returns
HitResult(cached) == [url |-> cached.url, media_id |-> cached.media_id]

\* ---------------------------------------------------------------- requests
TokenRequest == [api |-> "token", hash |-> None, thumb_media_id |-> <<>>, content |-> <<>>,
                 title |-> "", author |-> "", digest |-> ""]
MediaRequest(h) == [api |-> "add_material", hash |-> h, thumb_media_id |-> <<>>, content |-> <<>>,
                    title |-> "", author |-> "", digest |-> ""]

\* (mutant) author and digest change places
DraftRequest_Swapped(title, content, thumbMediaId, author, digest) ==
    [api |-> "draft/add", hash |-> None, thumb_media_id |-> thumbMediaId,
     content |-> content, title |-> title, author |-> digest, digest |-> author]

\* the articles[0] object publishArticle posts to draft/add
DraftRequest(title, content, thumbMediaId, author, digest) ==
    [api |-> "draft/add", hash |-> None, thumb_media_id |-> thumbMediaId,
     content |-> content, title |-> title, author |-> author, digest |-> digest]

Enter(p, stage) == stages' = [stages EXCEPT ![p] = Append(@, stage)]

\* (mutant) the error is reported but the pipeline is not left
Abort_NoHalt(p, err) ==
    /\ pc' = pc
    /\ outcome' = [outcome EXCEPT ![p] = Append(@, [ok |-> FALSE, media_id |-> <<>>, error |-> err])]
    /\ running' = None

\* (mutant) the error is swallowed: the pipeline stops and reports nothing
Abort_Silent(p, err) ==
    /\ pc' = [pc EXCEPT ![p] = "Failed"]
    /\ outcome' = outcome
    /\ running' = None

\* publishToWechat rejects: the error reaches the caller
Abort(p, err) ==
    /\ pc' = [pc EXCEPT ![p] = "Failed"]
    /\ outcome' = [outcome EXCEPT ![p] = Append(@, [ok |-> FALSE, media_id |-> <<>>, error |-> err])]
    /\ running' = None

\* (mutant) on a miss the upload is sent twice, two requests are outstanding
UploadImageCall_Twice(p, buffer, filename) ==
    LET h == getFileHash(buffer)
        hit == IsFresh(uploadedImageCache, h, now)
    IN /\ call' = [call EXCEPT ![p] =
                    [hash |-> h, hit |-> hit,
                     url |-> IF hit THEN HitResult(uploadedImageCache[h]).url ELSE <<>>,
                     media_id |-> IF hit THEN HitResult(uploadedImageCache[h]).media_id ELSE <<>>,
                     at |-> now, logLen |-> Len(uploadLog),
                     reqsBefore |-> Len(reqs[p]),
                     entryAge |-> IF h \in DOMAIN uploadedImageCache
                                  THEN now - uploadedImageCache[h].timestamp ELSE -1,
                     filename |-> filename, token |-> access_token[p]]]
       /\ uploadedImageCache' = CacheAfterLookup(uploadedImageCache, h, now)
       /\ cacheOps' = IF uploadedImageCache' # uploadedImageCache
                      THEN [cacheOps EXCEPT ![p] = Append(@, <<"delete", h>>)]
                      ELSE cacheOps
       /\ reqs' = IF hit THEN reqs
                  ELSE [reqs EXCEPT ![p] = Append(Append(@, MediaRequest(h)), MediaRequest(h))]

\* mutant: the entry is found only under the file name it was uploaded with
UploadImageCall_ByName(p, buffer, filename) ==
    LET h == getFileHash(buffer)
        hit == /\ IsFresh(uploadedImageCache, h, now)
               /\ \E i \in 1..Len(uploadLog) :
                     /\ uploadLog[i].url = uploadedImageCache[h].url
                     /\ uploadLog[i].filename = filename
    IN /\ call' = [call EXCEPT ![p] =
                    [hash |-> h, hit |-> hit,
                     url |-> IF hit THEN HitResult(uploadedImageCache[h]).url ELSE <<>>,
                     media_id |-> IF hit THEN HitResult(uploadedImageCache[h]).media_id ELSE <<>>,
                     at |-> now, logLen |-> Len(uploadLog),
                     reqsBefore |-> Len(reqs[p]),
                     entryAge |-> IF h \in DOMAIN uploadedImageCache
                                  THEN now - uploadedImageCache[h].timestamp ELSE -1,
                     filename |-> filename, token |-> access_token[p]]]
       /\ uploadedImageCache' = CacheAfterLookup(uploadedImageCache, h, now)
       /\ cacheOps' = IF uploadedImageCache' # uploadedImageCache
                      THEN [cacheOps EXCEPT ![p] = Append(@, <<"delete", h>>)]
                      ELSE cacheOps
       /\ reqs' = IF hit THEN reqs ELSE [reqs EXCEPT ![p] = Append(@, MediaRequest(h))]

\* mutant: the entry is found only with the access token it was uploaded with
UploadImageCall_PerAccount(p, buffer, filename) ==
    LET h == getFileHash(buffer)
        hit == /\ IsFresh(uploadedImageCache, h, now)
               /\ \E i \in 1..Len(uploadLog) :
                     /\ uploadLog[i].url = uploadedImageCache[h].url
                     /\ uploadLog[i].token = access_token[p]
    IN /\ call' = [call EXCEPT ![p] =
                    [hash |-> h, hit |-> hit,
                     url |-> IF hit THEN HitResult(uploadedImageCache[h]).url ELSE <<>>,
                     media_id |-> IF hit THEN HitResult(uploadedImageCache[h]).media_id ELSE <<>>,
                     at |-> now, logLen |-> Len(uploadLog),
                     reqsBefore |-> Len(reqs[p]),
                     entryAge |-> IF h \in DOMAIN uploadedImageCache
                                  THEN now - uploadedImageCache[h].timestamp ELSE -1,
                     filename |-> filename, token |-> access_token[p]]]
       /\ uploadedImageCache' = CacheAfterLookup(uploadedImageCache, h, now)
       /\ cacheOps' = IF uploadedImageCache' # uploadedImageCache
                      THEN [cacheOps EXCEPT ![p] = Append(@, <<"delete", h>>)]
                      ELSE cacheOps
       /\ reqs' = IF hit THEN reqs ELSE [reqs EXCEPT ![p] = Append(@, MediaRequest(h))]

\* The synchronous part of uploadImage(buffer): hash, cache lookup, and on a
\* miss the request of uploadImageInternal.
UploadImageCall(p, buffer, filename) ==
    LET h == getFileHash(buffer)
        hit == IsFresh(uploadedImageCache, h, now)
    IN /\ call' = [call EXCEPT ![p] =
                    [hash |-> h, hit |-> hit,
                     url |-> IF hit THEN HitResult(uploadedImageCache[h]).url ELSE <<>>,
                     media_id |-> IF hit THEN HitResult(uploadedImageCache[h]).media_id ELSE <<>>,
                     at |-> now, logLen |-> Len(uploadLog),
                     reqsBefore |-> Len(reqs[p]),
                     entryAge |-> IF h \in DOMAIN uploadedImageCache
                                  THEN now - uploadedImageCache[h].timestamp ELSE -1,
                     filename |-> filename, token |-> access_token[p]]]
       /\ uploadedImageCache' = CacheAfterLookup(uploadedImageCache, h, now)
       /\ cacheOps' = IF uploadedImageCache' # uploadedImageCache
                      THEN [cacheOps EXCEPT ![p] = Append(@, <<"delete", h>>)]
                      ELSE cacheOps
       /\ reqs' = IF hit THEN reqs ELSE [reqs EXCEPT ![p] = Append(@, MediaRequest(h))]

\* the error uploadImageInternal rejects with
UploadErrorOf(r) ==
    IF r.kind = "transport" THEN Err("request", 0, "")
    ELSE IF r.kind = "unparsable" THEN Err("parse", 0, "")
    ELSE Err("upload", r.errcode, r.errmsg)

UploadFails(p, r) == ~call[p].hit /\ (r.kind # "json" \/ HasErrcode(r))

\* (mutant) the response is cached before its errcode is looked at
UploadImageSettle_CacheOnError(p, r) ==
    IF call[p].hit \/ r.kind # "json"
    THEN UNCHANGED <<uploadedImageCache, serial, uploadLog, cacheOps>>
    ELSE /\ serial' = serial + 1
         /\ cacheOps' = [cacheOps EXCEPT ![p] = Append(@, <<"set", call[p].hash>>)]
         /\ uploadedImageCache' = CacheSet(uploadedImageCache, call[p].hash,
                                           UrlOf(serial + 1), MediaIdOf(serial + 1), now)
         /\ uploadLog' = Append(uploadLog,
                [hash |-> call[p].hash, url |-> UrlOf(serial + 1),
                 media_id |-> MediaIdOf(serial + 1), at |-> now, by |-> p,
                 filename |-> call[p].filename, token |-> call[p].token])

\* The rest of uploadImage once the awaited promise settles with r: a hit
\* returns the cached result whatever r is (no request was made); a
\* response without error is cached with the time of its arrival.
UploadImageSettle(p, r) ==
    IF call[p].hit \/ UploadFails(p, r)
    THEN UNCHANGED <<uploadedImageCache, serial, uploadLog, cacheOps>>
    ELSE /\ serial' = serial + 1
         /\ cacheOps' = [cacheOps EXCEPT ![p] = Append(@, <<"set", call[p].hash>>)]
         /\ uploadedImageCache' = CacheSet(uploadedImageCache, call[p].hash,
                                           UrlOf(serial + 1), MediaIdOf(serial + 1), now)
         /\ uploadLog' = Append(uploadLog,
                [hash |-> call[p].hash, url |-> UrlOf(serial + 1),
                 media_id |-> MediaIdOf(serial + 1), at |-> now, by |-> p,
                 filename |-> call[p].filename, token |-> call[p].token])

\* When the awaited uploadImage settles: a hit resumes in the same turn of
\* the event loop (no response is involved), a request when its response
\* arrives.
Settles(p, r) ==
    IF call[p].hit THEN running = p /\ r = JsonOk ELSE running = None

\* the MediaUploadResponse uploadImage resolves with
UploadResult(p) ==
    IF call[p].hit THEN [url |-> call[p].url, media_id |-> call[p].media_id]
    ELSE [url |-> UrlOf(serial + 1), media_id |-> MediaIdOf(serial + 1)]

\* ----------------------------------------------------------------- actions
\* appId and appSecret after the fallback to the environment
AppId(p) == IF settings[p].appId # "" THEN settings[p].appId ELSE env.MP_APP_ID
AppSecret(p) == IF settings[p].appSecret # "" THEN settings[p].appSecret ELSE env.MP_APP_SECRET

\* (mutant) the title is not required
validateFrontMatter_NoTitle(d) == TRUE

\* validateFrontMatter(data).valid: the title is there and not empty
validateFrontMatter(d) == d.title # ""

\* the token the platform issues to an account
TokenOf(appId) == IF appId = "wxA" THEN "tokenA" ELSE "tokenB"

\* (mutant) a publish made after another one failed takes over its access
\* token and goes on with the document without a credential request
Invoke_Resume(p) ==
    /\ running = None
    /\ pc[p] = "Idle"
    /\ IF AppId(p) = "" \/ AppSecret(p) = "" \/ ~validateFrontMatter(data[p])
       THEN /\ pc' = [pc EXCEPT ![p] = "Rejected"]
            /\ UNCHANGED <<stages, reqs, access_token, updatedHtml, idx, running>>
       ELSE IF \E q \in Procs : pc[q] = "Failed" /\ access_token[q] # None
       THEN /\ pc' = [pc EXCEPT ![p] = "RewriteContentImages"]
            /\ Enter(p, "RewriteContentImages")
            /\ access_token' = [access_token EXCEPT ![p] = TokenOf(AppId(p))]
            /\ updatedHtml' = [updatedHtml EXCEPT ![p] = htmlContent[p]]
            /\ idx' = [idx EXCEPT ![p] = 1]
            /\ running' = p
            /\ UNCHANGED reqs
       ELSE /\ pc' = [pc EXCEPT ![p] = "AcquireCredential"]
            /\ Enter(p, "AcquireCredential")
            /\ reqs' = [reqs EXCEPT ![p] = Append(@, TokenRequest)]
            /\ UNCHANGED <<access_token, updatedHtml, idx, running>>
    /\ UNCHANGED <<clockVars, inputVars, uploadedImageCache, serial, uploadLog,
                   firstLocalImagePath,
                   call, finalCoverBuffer, thumb, outcome, warnings, reads, resp,
                   cacheOps, failed>>

\* The plugin's publishToWeChat is called.  Without App ID or App Secret, or
\* without a title, it shows a notice and returns; otherwise it calls
\* publishToWechat, whose getAccessToken sends its GET.
Invoke(p) ==
    /\ running = None
    /\ pc[p] = "Idle"
    /\ IF AppId(p) = "" \/ AppSecret(p) = "" \/ ~validateFrontMatter(data[p])
       THEN /\ pc' = [pc EXCEPT ![p] = "Rejected"]
            /\ UNCHANGED <<stages, reqs>>
       ELSE /\ pc' = [pc EXCEPT ![p] = "AcquireCredential"]
            /\ Enter(p, "AcquireCredential")
            /\ reqs' = [reqs EXCEPT ![p] = Append(@, TokenRequest)]
    /\ UNCHANGED <<clockVars, inputVars, uploadedImageCache, serial, uploadLog,
                   running, access_token, updatedHtml, idx, firstLocalImagePath,
                   call, finalCoverBuffer, thumb, outcome, warnings, reads, resp,
                   cacheOps, failed>>

\* (mutant) the message is built without the response's errcode
TokenErrorOf_NoCode(r) ==
    IF r.kind = "json" THEN Err("token", 0, r.errmsg) ELSE Err("raw", 0, "")

\* the error getAccessToken rejects with
TokenErrorOf(r) ==
    IF r.kind = "json" THEN Err("token", r.errcode, r.errmsg) ELSE Err("raw", 0, "")

\* (mutant) a refused credential request is sent again instead of aborting
TokenResponse_NoAbort(p, r) ==
    /\ running = None
    /\ pc[p] = "AcquireCredential"
    /\ resp' = [resp EXCEPT ![p] = r]
    /\ IF r.kind # "json" \/ HasErrcode(r)
       THEN UNCHANGED <<pc, outcome, running, access_token, updatedHtml, idx, stages>>
       ELSE /\ access_token' = [access_token EXCEPT ![p] = TokenOf(AppId(p))]
            /\ updatedHtml' = [updatedHtml EXCEPT ![p] = htmlContent[p]]
            /\ idx' = [idx EXCEPT ![p] = 1]
            /\ pc' = [pc EXCEPT ![p] = "RewriteContentImages"]
            /\ Enter(p, "RewriteContentImages")
            /\ running' = p
            /\ UNCHANGED outcome
    /\ UNCHANGED <<clockVars, inputVars, uploadedImageCache, serial, uploadLog,
                   firstLocalImagePath, call, finalCoverBuffer, thumb, warnings,
                   reqs, reads, cacheOps, failed>>

\* The credential response arrives.
TokenResponse(p, r) ==
    /\ running = None
    /\ pc[p] = "AcquireCredential"
    /\ resp' = [resp EXCEPT ![p] = r]
    /\ IF r.kind # "json" \/ HasErrcode(r)
       THEN /\ Abort(p, TokenErrorOf(r))
            /\ UNCHANGED <<access_token, updatedHtml, idx, stages>>
       ELSE /\ access_token' = [access_token EXCEPT ![p] = TokenOf(AppId(p))]
            /\ updatedHtml' = [updatedHtml EXCEPT ![p] = htmlContent[p]]
            /\ idx' = [idx EXCEPT ![p] = 1]
            /\ pc' = [pc EXCEPT ![p] = "RewriteContentImages"]
            /\ Enter(p, "RewriteContentImages")
            /\ running' = p
            /\ UNCHANGED outcome
    /\ UNCHANGED <<clockVars, inputVars, uploadedImageCache, serial, uploadLog,
                   firstLocalImagePath, call, finalCoverBuffer, thumb, warnings,
                   reqs, reads, cacheOps, failed>>

\* (mutant) every local image is recorded, the last one wins
RewriteStep_LastWins(p) ==
    /\ running = p
    /\ pc[p] = "RewriteContentImages"
    /\ idx[p] <= Len(htmlContent[p])
    /\ LET src == htmlContent[p][idx[p]].src
           imagePath == ImagePathOf(src, basePath)
       IN IF ~IsImg(htmlContent[p][idx[p]]) \/ IsSkipped(src)
          THEN /\ idx' = [idx EXCEPT ![p] = @ + 1]
               /\ UNCHANGED <<uploadedImageCache, firstLocalImagePath, call, warnings,
                              reqs, reads, pc, running, cacheOps, failed>>
          ELSE /\ firstLocalImagePath' = [firstLocalImagePath EXCEPT ![p] = imagePath]
               /\ reads' = [reads EXCEPT ![p] = Append(@, imagePath)]
               /\ IF CanRead(fs, imagePath)
                  THEN /\ UploadImageCall(p, Content(imagePath), FilenameOf(imagePath, "image.jpg"))
                       /\ pc' = [pc EXCEPT ![p] = "AwaitContentUpload"]
                       /\ running' = IF call'[p].hit THEN p ELSE None
                       /\ UNCHANGED <<idx, warnings, failed>>
                  ELSE /\ warnings' = [warnings EXCEPT ![p] = @ + 1]
                       /\ failed' = [failed EXCEPT ![p] = @ \cup {idx[p]}]
                       /\ idx' = [idx EXCEPT ![p] = @ + 1]
                       /\ UNCHANGED <<uploadedImageCache, call, reqs, pc, running,
                                      cacheOps>>
    /\ UNCHANGED <<clockVars, inputVars, serial, uploadLog, access_token,
                   updatedHtml, finalCoverBuffer, thumb, outcome, stages, resp>>

\* One pass of the while loop of uploadContentImages, up to its await.  idx
\* walks the document; imgRegex stops only at <img> tags, anything else is
\* passed over like a skipped reference.
RewriteStep(p) ==
    /\ running = p
    /\ pc[p] = "RewriteContentImages"
    /\ idx[p] <= Len(htmlContent[p])
    /\ LET src == htmlContent[p][idx[p]].src
           imagePath == ImagePathOf(src, basePath)
       IN IF ~IsImg(htmlContent[p][idx[p]]) \/ IsSkipped(src)
          THEN /\ idx' = [idx EXCEPT ![p] = @ + 1]
               /\ UNCHANGED <<uploadedImageCache, firstLocalImagePath, call, warnings,
                              reqs, reads, pc, running, cacheOps, failed>>
          ELSE /\ firstLocalImagePath' =
                     IF firstLocalImagePath[p] = NoPath
                     THEN [firstLocalImagePath EXCEPT ![p] = imagePath]
                     ELSE firstLocalImagePath
               /\ reads' = [reads EXCEPT ![p] = Append(@, imagePath)]
               /\ IF CanRead(fs, imagePath)
                  THEN /\ UploadImageCall(p, Content(imagePath), FilenameOf(imagePath, "image.jpg"))
                       /\ pc' = [pc EXCEPT ![p] = "AwaitContentUpload"]
                       /\ running' = IF call'[p].hit THEN p ELSE None
                       /\ UNCHANGED <<idx, warnings, failed>>
                  ELSE /\ warnings' = [warnings EXCEPT ![p] = @ + 1]
                       /\ failed' = [failed EXCEPT ![p] = @ \cup {idx[p]}]
                       /\ idx' = [idx EXCEPT ![p] = @ + 1]
                       /\ UNCHANGED <<uploadedImageCache, call, reqs, pc, running,
                                      cacheOps>>
    /\ UNCHANGED <<clockVars, inputVars, serial, uploadLog, access_token,
                   updatedHtml, finalCoverBuffer, thumb, outcome, stages, resp>>

\* (mutant) no try/catch around the upload: a failed image upload rejects
\* uploadContentImages and with it publishToWechat
ContentUploadDone_Abort(p, r) ==
    /\ pc[p] = "AwaitContentUpload"
    /\ Settles(p, r)
    /\ UploadImageSettle(p, r)
    /\ call' = [call EXCEPT ![p] = NoCall]
    /\ IF UploadFails(p, r)
       THEN /\ Abort(p, UploadErrorOf(r))
            /\ UNCHANGED <<updatedHtml, idx>>
       ELSE /\ updatedHtml' = [updatedHtml EXCEPT ![p] =
                  ReplaceSrc(@, htmlContent[p][idx[p]].src, UploadResult(p).url)]
            /\ idx' = [idx EXCEPT ![p] = @ + 1]
            /\ pc' = [pc EXCEPT ![p] = "RewriteContentImages"]
            /\ running' = p
            /\ UNCHANGED outcome
    /\ UNCHANGED <<clockVars, inputVars, access_token, firstLocalImagePath,
                   finalCoverBuffer, thumb, stages, reqs, reads, resp, warnings,
                   failed>>

\* The awaited uploadImage of a content image settles.
ContentUploadDone(p, r) ==
    /\ pc[p] = "AwaitContentUpload"
    /\ Settles(p, r)
    /\ UploadImageSettle(p, r)
    /\ IF UploadFails(p, r)
       THEN /\ warnings' = [warnings EXCEPT ![p] = @ + 1]
            /\ failed' = [failed EXCEPT ![p] = @ \cup {idx[p]}]
            /\ UNCHANGED updatedHtml
       ELSE /\ updatedHtml' = [updatedHtml EXCEPT ![p] =
                  ReplaceSrc(@, htmlContent[p][idx[p]].src, UploadResult(p).url)]
            /\ UNCHANGED <<warnings, failed>>
    /\ idx' = [idx EXCEPT ![p] = @ + 1]
    /\ call' = [call EXCEPT ![p] = NoCall]
    /\ pc' = [pc EXCEPT ![p] = "RewriteContentImages"]
    /\ running' = p
    /\ UNCHANGED <<clockVars, inputVars, access_token, firstLocalImagePath,
                   finalCoverBuffer, thumb, outcome, stages, reqs, reads, resp>>


\* join(pluginPath, "assets", name)
join(dir, a, b) == Normalize(dir, <<a, b>>)

\* defaultCoverPaths: the configured path, if any, before the bundled ones
DefaultCoverPaths(configured) ==
    (IF configured # NoPath THEN <<resolve(configured)>> ELSE <<>>)
        \o <<join(pluginPath, "assets", "default-cover.jpg"),
             join(pluginPath, "assets", "default-cover.png")>>

\* the for loop over defaultCoverPaths: the first that exists and can be
\* read; one that exists and cannot be read is passed over
RECURSIVE FirstUsable(_, _)
FirstUsable(files, list) ==
    IF list = <<>> THEN NoPath
    ELSE IF existsSync(files, Head(list)) /\ CanRead(files, Head(list))
         THEN Head(list)
         ELSE FirstUsable(files, Tail(list))

\* (mutant) a first local image that cannot be read ends the search
CoverPath_NoFallThrough(explicit, firstLocal, configured, files) ==
    IF explicit # None THEN NoPath
    ELSE IF firstLocal # NoPath
         THEN (IF CanRead(files, firstLocal) THEN firstLocal ELSE NoPath)
         ELSE FirstUsable(files, DefaultCoverPaths(configured))

\* the path the cover is read from, None for the explicit cover or no cover
CoverPath(explicit, firstLocal, configured, files) ==
    IF explicit # None THEN NoPath
    ELSE IF firstLocal # NoPath /\ CanRead(files, firstLocal) THEN firstLocal
         ELSE FirstUsable(files, DefaultCoverPaths(configured))

\* (mutant) a readable first local image is preferred to the explicit cover
ResolveCoverBuffer_LocalFirst(explicit, firstLocal, configured, files) ==
    IF firstLocal # NoPath /\ CanRead(files, firstLocal) THEN Content(firstLocal)
    ELSE IF explicit # None THEN explicit
         ELSE LET path == CoverPath(explicit, firstLocal, configured, files)
              IN IF path = NoPath THEN None ELSE Content(path)

\* finalCoverBuffer after step 3 of publishToWechat
ResolveCoverBuffer(explicit, firstLocal, configured, files) ==
    IF explicit # None THEN explicit
    ELSE LET path == CoverPath(explicit, firstLocal, configured, files)
         IN IF path = NoPath THEN None ELSE Content(path)

\* the file name of the explicit cover, as the caller derived it
coverFilename == "cover.png"

\* finalCoverFilename || "cover.jpg" after step 3
CoverFilename(explicit, firstLocal, configured, files) ==
    IF explicit # None THEN coverFilename
    ELSE LET path == CoverPath(explicit, firstLocal, configured, files)
         IN IF path = firstLocal THEN FilenameOf(path, "cover.jpg")
            ELSE FilenameOf(path, "default-cover.jpg")

\* the readFileSync calls of step 3, in order
RECURSIVE DefaultReads(_, _)
DefaultReads(files, list) ==
    IF list = <<>> THEN <<>>
    ELSE IF ~existsSync(files, Head(list)) THEN DefaultReads(files, Tail(list))
         ELSE IF CanRead(files, Head(list)) THEN <<Head(list)>>
              ELSE <<Head(list)>> \o DefaultReads(files, Tail(list))

CoverReads(explicit, firstLocal, configured, files) ==
    IF explicit # None THEN <<>>
    ELSE IF firstLocal # NoPath /\ CanRead(files, firstLocal) THEN <<firstLocal>>
         ELSE (IF firstLocal # NoPath THEN <<firstLocal>> ELSE <<>>)
                 \o DefaultReads(files, DefaultCoverPaths(configured))

\* (mutant) the cover is resolved when the last reference is still to be
\* processed
RewriteDone_Early(p) ==
    /\ running = p
    /\ pc[p] = "RewriteContentImages"
    /\ idx[p] >= Len(htmlContent[p])
    /\ pc' = [pc EXCEPT ![p] = "ResolveCover"]
    /\ Enter(p, "ResolveCover")
    /\ UNCHANGED <<clockVars, inputVars, uploadedImageCache, serial, uploadLog,
                   running, access_token, updatedHtml, idx, firstLocalImagePath,
                   call, finalCoverBuffer, thumb, outcome, warnings, reqs, reads,
                   resp, cacheOps, failed>>

\* uploadContentImages returns { html, firstLocalImagePath }.
RewriteDone(p) ==
    /\ running = p
    /\ pc[p] = "RewriteContentImages"
    /\ idx[p] > Len(htmlContent[p])
    /\ pc' = [pc EXCEPT ![p] = "ResolveCover"]
    /\ Enter(p, "ResolveCover")
    /\ UNCHANGED <<clockVars, inputVars, uploadedImageCache, serial, uploadLog,
                   running, access_token, updatedHtml, idx, firstLocalImagePath,
                   call, finalCoverBuffer, thumb, outcome, warnings, reqs, reads,
                   resp, cacheOps, failed>>

\* Step 3 of publishToWechat, and the call of uploadImage for the cover.
ResolveCover(p) ==
    /\ running = p
    /\ pc[p] = "ResolveCover"
    /\ LET buf == ResolveCoverBuffer(coverImageBuffer[p], firstLocalImagePath[p],
                                     defaultCoverPath[p], fs)
       IN /\ reads' = [reads EXCEPT ![p] =
                         @ \o CoverReads(coverImageBuffer[p], firstLocalImagePath[p],
                                         defaultCoverPath[p], fs)]
          /\ finalCoverBuffer' = [finalCoverBuffer EXCEPT ![p] = buf]
          /\ IF buf = None
             THEN /\ Abort(p, Err("cover", 0, ""))
                  /\ UNCHANGED <<uploadedImageCache, call, reqs, stages, cacheOps>>
             ELSE /\ UploadImageCall(p, buf,
                                     CoverFilename(coverImageBuffer[p], firstLocalImagePath[p],
                                                   defaultCoverPath[p], fs))
                  /\ pc' = [pc EXCEPT ![p] = "UploadCover"]
                  /\ Enter(p, "UploadCover")
                  /\ running' = IF call'[p].hit THEN p ELSE None
                  /\ UNCHANGED outcome
    /\ UNCHANGED <<clockVars, inputVars, serial, uploadLog, access_token,
                   updatedHtml, idx, firstLocalImagePath, thumb, warnings, resp,
                   failed>>

\* The awaited uploadImage of the cover settles; on success publishArticle
\* posts the draft.
CoverUploadDone(p, r) ==
    /\ pc[p] = "UploadCover"
    /\ Settles(p, r)
    /\ UploadImageSettle(p, r)
    /\ resp' = IF call[p].hit THEN resp ELSE [resp EXCEPT ![p] = r]
    /\ call' = [call EXCEPT ![p] = NoCall]
    /\ IF UploadFails(p, r)
       THEN /\ Abort(p, UploadErrorOf(r))
            /\ UNCHANGED <<thumb, reqs, stages>>
       ELSE /\ thumb' = [thumb EXCEPT ![p] = UploadResult(p).media_id]
            /\ reqs' = [reqs EXCEPT ![p] =
                          Append(@, DraftRequest(data[p].title, updatedHtml[p],
                                                 UploadResult(p).media_id,
                                                 data[p].author, data[p].description))]
            /\ pc' = [pc EXCEPT ![p] = "SubmitArticle"]
            /\ Enter(p, "SubmitArticle")
            /\ running' = None
            /\ UNCHANGED outcome
    /\ UNCHANGED <<clockVars, inputVars, access_token, updatedHtml, idx,
                   firstLocalImagePath, finalCoverBuffer, warnings, reads, failed>>

\* (mutant) a generic failure: the response's code and message are dropped
PublishErrorOf_Generic(r) == Err("raw", 0, "")

\* the error publishArticle rejects with
PublishErrorOf(r) ==
    IF r.kind = "json" THEN Err("publish", r.errcode, r.errmsg) ELSE Err("raw", 0, "")

\* the media_id of the draft the platform created
DraftIdOf(p) == <<"draft", p>>

\* (mutant) a failed submission is posted again
SubmitResponse_Retry(p, r) ==
    /\ running = None
    /\ pc[p] = "SubmitArticle"
    /\ resp' = [resp EXCEPT ![p] = r]
    /\ IF r.kind # "json" \/ HasErrcode(r)
       THEN /\ reqs' = [reqs EXCEPT ![p] = Append(@, DraftRequest(data[p].title, updatedHtml[p], thumb[p],
                                                 data[p].author, data[p].description))]
            /\ Enter(p, "SubmitArticle")
            /\ UNCHANGED <<pc, outcome, running>>
       ELSE /\ pc' = [pc EXCEPT ![p] = "Done"]
            /\ Enter(p, "Done")
            /\ outcome' = [outcome EXCEPT ![p] =
                  Append(@, [ok |-> TRUE, media_id |-> DraftIdOf(p), error |-> Err("", 0, "")])]
            /\ running' = None
            /\ UNCHANGED reqs
    /\ UNCHANGED <<clockVars, inputVars, uploadedImageCache, serial, uploadLog,
                   access_token, updatedHtml, idx, firstLocalImagePath, call,
                   finalCoverBuffer, thumb, warnings, reads, cacheOps, failed>>

\* The response to draft/add arrives.
SubmitResponse(p, r) ==
    /\ running = None
    /\ pc[p] = "SubmitArticle"
    /\ resp' = [resp EXCEPT ![p] = r]
    /\ IF r.kind # "json" \/ HasErrcode(r)
       THEN /\ Abort(p, PublishErrorOf(r))
            /\ UNCHANGED stages
       ELSE /\ pc' = [pc EXCEPT ![p] = "Done"]
            /\ Enter(p, "Done")
            /\ outcome' = [outcome EXCEPT ![p] =
                  Append(@, [ok |-> TRUE, media_id |-> DraftIdOf(p), error |-> Err("", 0, "")])]
            /\ running' = None
    /\ UNCHANGED <<clockVars, inputVars, uploadedImageCache, serial, uploadLog,
                   access_token, updatedHtml, idx, firstLocalImagePath, call,
                   finalCoverBuffer, thumb, warnings, reqs, reads, cacheOps, failed>>

\* Time passes.
Tick(d) ==
    /\ ticks < MaxTicks
    /\ now' = now + d
    /\ ticks' = ticks + 1
    /\ UNCHANGED <<inputVars, uploadedImageCache, serial, uploadLog, running, pc,
                   access_token, updatedHtml, idx, firstLocalImagePath, call,
                   finalCoverBuffer, thumb, outcome, stages, warnings, reqs, reads,
                   resp, cacheOps, failed>>

\* ------------------------------------------------------------------- specs
RECURSIVE SeqsUpTo(_, _)
SeqsUpTo(S, n) ==
    IF n = 0 THEN {<<>>}
    ELSE LET shorter == SeqsUpTo(S, n - 1)
         IN shorter \cup {Append(q, x) : q \in {t \in shorter : Len(t) = n - 1}, x \in S}

InitPipeline ==
    /\ theme = "default"
    /\ originalTheme = [p \in Procs |-> None]
    /\ currentTheme = [p \in Procs |-> None]
    /\ handler = [p \in Procs |-> "idle"]
    /\ now = 0
    /\ ticks = 0
    /\ uploadedImageCache = <<>>
    /\ serial = 0
    /\ uploadLog = <<>>
    /\ running = None
    /\ access_token = [p \in Procs |-> None]
    /\ updatedHtml = [p \in Procs |-> <<>>]
    /\ idx = [p \in Procs |-> 0]
    /\ firstLocalImagePath = [p \in Procs |-> NoPath]
    /\ call = [p \in Procs |-> NoCall]
    /\ finalCoverBuffer = [p \in Procs |-> None]
    /\ thumb = [p \in Procs |-> <<>>]
    /\ outcome = [p \in Procs |-> <<>>]
    /\ stages = [p \in Procs |-> <<>>]
    /\ warnings = [p \in Procs |-> 0]
    /\ reqs = [p \in Procs |-> <<>>]
    /\ reads = [p \in Procs |-> <<>>]
    /\ resp = [p \in Procs |-> NoResponse]
    /\ cacheOps = [p \in Procs |-> <<>>]
    /\ failed = [p \in Procs |-> {}]

InitCommon ==
    /\ InitPipeline
    /\ host = "win32"
    /\ text = <<>>
    /\ result = <<>>
    /\ applied = 0

\* an account configured in the settings, and a note with a title
InitAccount ==
    /\ settings = [p \in Procs |-> [appId |-> "wxA", appSecret |-> "secretA"]]
    /\ env = [MP_APP_ID |-> "", MP_APP_SECRET |-> ""]
    /\ data = [p \in Procs |-> [title |-> "Title", author |-> "", description |-> ""]]

\* Two overlapping publishes of notes with at most one image.
Init ==
    /\ InitCommon
    /\ InitAccount
    /\ pc = [p \in Procs |-> "Idle"]
    /\ fs \in {[q \in Paths |-> IF q = PathA THEN a ELSE IF q = BundledJpg THEN j
                                ELSE IF q = PathB THEN "ok" ELSE "missing"] :
                 a \in {"ok", "unreadable"}, j \in {"ok", "missing"}}
    /\ htmlContent \in [Procs -> {<<>>, <<ImgTag(SrcRelA)>>}]
    /\ coverImageBuffer = [p \in Procs |-> None]
    /\ defaultCoverPath = [p \in Procs |-> NoPath]

Next ==
    \/ \E p \in Procs : Invoke(p)
    \/ \E p \in Procs, r \in Responses : TokenResponse(p, r)
    \/ \E p \in Procs : RewriteStep(p)
    \/ \E p \in Procs, r \in Responses : ContentUploadDone(p, r)
    \/ \E p \in Procs : RewriteDone(p)
    \/ \E p \in Procs : ResolveCover(p)
    \/ \E p \in Procs, r \in Responses : CoverUploadDone(p, r)
    \/ \E p \in Procs, r \in Responses : SubmitResponse(p, r)
    \/ \E d \in TickSteps : Tick(d)

Spec == Init /\ [][Next]_vars

\* One publish of a note with up to MaxImgs <img> tags.
ImgTags == {ImgTag(SrcRelA), ImgTag(SrcRelB), ImgTag(SrcHttp)}

InitRewrite ==
    /\ InitCommon
    /\ InitAccount
    /\ pc = [p \in Procs |-> IF p = "p1" THEN "Idle" ELSE "Off"]
    /\ fs \in {[q \in Paths |-> IF q = PathA THEN a ELSE IF q = PathB THEN b
                                ELSE IF q = BundledJpg THEN "ok" ELSE "missing"] :
                 a \in {"ok", "unreadable"}, b \in {"ok", "missing"}}
    /\ htmlContent \in {[p \in Procs |-> IF p = "p1" THEN d ELSE <<>>] :
                            d \in SeqsUpTo(ImgTags, MaxImgs)}
    /\ coverImageBuffer = [p \in Procs |-> None]
    /\ defaultCoverPath = [p \in Procs |-> NoPath]

SpecRewrite == InitRewrite /\ [][Next]_vars

\* One publish with every combination of cover candidates: explicit cover
\* bytes or none, a note with or without a local image, a configured default
\* cover or none, and the files present, unreadable or missing.
InitCover ==
    /\ InitCommon
    /\ InitAccount
    /\ pc = [p \in Procs |-> IF p = "p1" THEN "Idle" ELSE "Off"]
    /\ fs \in {[q \in Paths |-> IF q = PathA THEN a ELSE IF q = ConfiguredCover THEN c
                                ELSE IF q = BundledJpg THEN j
                                ELSE IF q = BundledPng THEN g ELSE "ok"] :
                 a \in {"ok", "unreadable"}, c \in FileStates, j \in FileStates,
                 g \in FileStates}
    /\ htmlContent \in {[p \in Procs |-> IF p = "p1" THEN d ELSE <<>>] :
                            d \in {<<>>, <<ImgTag(SrcRelA)>>}}
    /\ coverImageBuffer \in {[p \in Procs |-> IF p = "p1" THEN e ELSE None] :
                                e \in {None, ExplicitCoverBytes}}
    /\ defaultCoverPath \in {[p \in Procs |-> IF p = "p1" THEN c ELSE NoPath] :
                                c \in {NoPath, ConfiguredCover}}

SpecCover == InitCover /\ [][Next]_vars

\* One publish of a document that mixes a local image, references of every
\* skipped kind, and a tag that is not an <img> but carries the same
\* src="a.png" text.
DocItems == {ImgTag(SrcRelA), ImgTag(SrcMmbiz), ImgTag(SrcHttp), ImgTag(SrcData),
             OtherTag(SrcRelA)}

InitDocument ==
    /\ InitCommon
    /\ InitAccount
    /\ pc = [p \in Procs |-> IF p = "p1" THEN "Idle" ELSE "Off"]
    /\ fs = [q \in Paths |-> IF q \in {PathA, BundledJpg} THEN "ok" ELSE "missing"]
    /\ htmlContent \in {[p \in Procs |-> IF p = "p1" THEN d ELSE <<>>] :
                            d \in SeqsUpTo(DocItems, MaxImgs)}
    /\ coverImageBuffer = [p \in Procs |-> None]
    /\ defaultCoverPath = [p \in Procs |-> NoPath]

SpecDocument == InitDocument /\ [][Next]_vars

\* Two publishes that may overlap, of notes whose images have the same bytes
\* under different file names (a.png, copy.png, and the configured default
\* cover my.jpg), the second one under the same or under another account.
InitShared ==
    /\ InitCommon
    /\ pc = [p \in Procs |-> "Idle"]
    /\ fs = [q \in Paths |-> IF q \in {PathA, PathCopy, ConfiguredCover, BundledJpg}
                              THEN "ok" ELSE "missing"]
    /\ htmlContent \in {[p \in Procs |-> IF p = "p1" THEN d1 ELSE d2] :
                            d1 \in {<<ImgTag(SrcRelA)>>, <<ImgTag(SrcRelA), ImgTag(SrcRelCopy)>>},
                            d2 \in {<<>>}}
    /\ coverImageBuffer = [p \in Procs |-> None]
    /\ defaultCoverPath \in {[p \in Procs |-> IF p = "p1" THEN NoPath ELSE c] :
                                c \in {ConfiguredCover}}
    /\ settings \in {[p \in Procs |-> IF p = "p1" THEN [appId |-> "wxA", appSecret |-> "secretA"]
                                       ELSE a] :
                        a \in {[appId |-> "wxA", appSecret |-> "secretA"],
                               [appId |-> "wxB", appSecret |-> "secretB"]}}
    /\ env = [MP_APP_ID |-> "", MP_APP_SECRET |-> ""]
    /\ data = [p \in Procs |-> [title |-> "Title", author |-> "", description |-> ""]]

SpecShared == InitShared /\ [][Next]_vars

\* Publishes made one after the other: a publish command is given only when
\* no other publish is under way, as when the user publishes again after a
\* notice of failure.
InitRetry ==
    /\ InitCommon
    /\ InitAccount
    /\ pc = [p \in Procs |-> "Idle"]
    /\ fs \in {[q \in Paths |-> IF q = PathB THEN b
                                ELSE IF q \in {PathA, BundledJpg} THEN "ok" ELSE "missing"] :
                 b \in {"ok", "missing"}}
    /\ htmlContent = [p \in Procs |-> <<ImgTag(SrcRelA), ImgTag(SrcRelB)>>]
    /\ coverImageBuffer = [p \in Procs |-> None]
    /\ defaultCoverPath = [p \in Procs |-> NoPath]

NextRetry ==
    \/ \E p \in Procs : /\ \A q \in Procs \ {p} : pc[q] \in {"Idle", "Done", "Failed"}
                         /\ Invoke(p)
    \/ \E p \in Procs, r \in Responses : TokenResponse(p, r)
    \/ \E p \in Procs : RewriteStep(p)
    \/ \E p \in Procs, r \in Responses : ContentUploadDone(p, r)
    \/ \E p \in Procs : RewriteDone(p)
    \/ \E p \in Procs : ResolveCover(p)
    \/ \E p \in Procs, r \in Responses : CoverUploadDone(p, r)
    \/ \E p \in Procs, r \in Responses : SubmitResponse(p, r)
    \/ \E d \in TickSteps : Tick(d)

SpecRetry == InitRetry /\ [][NextRetry]_vars

\* One publish command, given with any combination of configured and
\* environment credentials and of front-matter fields.
InitEntry ==
    /\ InitCommon
    /\ pc = [p \in Procs |-> IF p = "p1" THEN "Idle" ELSE "Off"]
    /\ fs = [q \in Paths |-> IF q \in {PathA, BundledJpg} THEN "ok" ELSE "missing"]
    /\ htmlContent \in {[p \in Procs |-> IF p = "p1" THEN d ELSE <<>>] :
                            d \in {<<>>, <<ImgTag(SrcRelA)>>}}
    /\ coverImageBuffer = [p \in Procs |-> None]
    /\ defaultCoverPath = [p \in Procs |-> NoPath]
    /\ settings \in {[p \in Procs |-> [appId |-> i, appSecret |-> s]] :
                        i \in {"", "wxA"}, s \in {"", "secretA"}}
    /\ env \in [MP_APP_ID : {"", "wxB"}, MP_APP_SECRET : {"", "secretB"}]
    /\ data \in {[p \in Procs |-> d] :
                    d \in [title : {"", "Title"}, author : {"", "Ann"},
                           description : {"", "Summary"}]}

SpecEntry == InitEntry /\ [][Next]_vars

\* The pipeline under the assumption that what it awaits completes: every
\* request sent is answered (with a body or a failure) and the continuation
\* of an await whose promise has settled is run by the event loop.
Completion ==
    \A p \in Procs :
        /\ WF_vars(\E r \in Responses : TokenResponse(p, r))
        /\ WF_vars(RewriteStep(p))
        /\ WF_vars(\E r \in Responses : ContentUploadDone(p, r))
        /\ WF_vars(RewriteDone(p))
        /\ WF_vars(ResolveCover(p))
        /\ WF_vars(\E r \in Responses : CoverUploadDone(p, r))
        /\ WF_vars(\E r \in Responses : SubmitResponse(p, r))

\* one publish of a note of up to MaxLiveImgs references, where a.png can be
\* read (its upload may be refused) and b.png cannot
InitLive ==
    /\ InitCommon
    /\ InitAccount
    /\ pc = [p \in Procs |-> IF p = "p1" THEN "Idle" ELSE "Off"]
    /\ fs = [q \in Paths |-> IF q \in {PathA, BundledJpg} THEN "ok" ELSE "missing"]
    /\ htmlContent \in {[p \in Procs |-> IF p = "p1" THEN d ELSE <<>>] :
                            d \in SeqsUpTo(ImgTags, MaxLiveImgs)}
    /\ coverImageBuffer = [p \in Procs |-> None]
    /\ defaultCoverPath = [p \in Procs |-> NoPath]

SpecLive == InitLive /\ [][Next]_vars /\ Completion


\* ----------------------------------------------------------- paths as text
\* For the resolution itself a path is its text, a sequence of pieces where
\* "/" and "\\" are pieces of their own, on a host that is Windows (win32) or
\* POSIX: path.resolve reads "\\" as a separator on win32 only.
Seps == {"/", "\\"}
Names == {"vault", "notes", "a.png"}

SepOf(h) == IF h = "win32" THEN "\\" ELSE "/"
IsSepOn(h, c) == IF h = "win32" THEN c \in Seps ELSE c = "/"
RootOn(h) == IF h = "win32" THEN <<"K:", "\\">> ELSE <<"/">>

\* the segments of a text between the host's separators
RECURSIVE SplitOn(_, _, _, _)
SplitOn(h, t, cur, acc) ==
    IF t = <<>> THEN Append(acc, cur)
    ELSE IF IsSepOn(h, Head(t)) THEN SplitOn(h, Tail(t), <<>>, Append(acc, cur))
         ELSE SplitOn(h, Tail(t), Append(cur, Head(t)), acc)

\* normalisation of segments: "" and "." dropped, ".." takes one back
RECURSIVE NormSegs(_, _)
NormSegs(done, rest) ==
    IF rest = <<>> THEN done
    ELSE LET g == Head(rest) IN
         IF g = <<>> \/ g = <<".">> THEN NormSegs(done, Tail(rest))
         ELSE IF g = <<"..">>
              THEN NormSegs(IF done = <<>> THEN done
                            ELSE SubSeq(done, 1, Len(done) - 1), Tail(rest))
              ELSE NormSegs(Append(done, g), Tail(rest))

RECURSIVE JoinSegs(_, _)
JoinSegs(h, segs) ==
    IF segs = <<>> THEN <<>>
    ELSE IF Len(segs) = 1 THEN Head(segs)
         ELSE Head(segs) \o <<SepOf(h)>> \o JoinSegs(h, Tail(segs))

IsAbsoluteOn(h, t) ==
    /\ t # <<>>
    /\ IF h = "win32"
       THEN t[1] \in Seps \/ (Len(t) >= 2 /\ t[1] \in Drives /\ t[2] \in Seps)
       ELSE t[1] = "/"

\* path.resolve(t) on host h
resolveOn(h, t) ==
    IF h = "win32"
    THEN IF t # <<>> /\ t[1] \in Drives
         THEN IF Len(t) >= 2 /\ t[2] \in Seps
              THEN <<t[1], "\\">> \o JoinSegs(h, NormSegs(<<>>, SplitOn(h, Tail(t), <<>>, <<>>)))
              ELSE <<t[1], "\\">> \o
                   JoinSegs(h, NormSegs(<<>>, <<<<"app">>>> \o SplitOn(h, Tail(t), <<>>, <<>>)))
         ELSE IF t # <<>> /\ t[1] \in Seps
              THEN RootOn(h) \o JoinSegs(h, NormSegs(<<>>, SplitOn(h, t, <<>>, <<>>)))
              ELSE RootOn(h) \o
                   JoinSegs(h, NormSegs(<<>>, <<<<"app">>>> \o SplitOn(h, t, <<>>, <<>>)))
    ELSE IF IsAbsoluteOn(h, t)
         THEN <<"/">> \o JoinSegs(h, NormSegs(<<>>, SplitOn(h, t, <<>>, <<>>)))
         ELSE <<"/">> \o JoinSegs(h, NormSegs(<<>>, <<<<"app">>>> \o SplitOn(h, t, <<>>, <<>>)))

\* path.resolve(base, t) on host h
resolveFrom(h, base, t) ==
    IF IsAbsoluteOn(h, t) THEN resolveOn(h, t)
    ELSE resolveOn(h, base \o <<SepOf(h)>> \o t)

\* path.dirname of an absolute path with at least one name
dirnameOn(h, t) ==
    LET segs == NormSegs(<<>>, SplitOn(h, SubSeq(t, Len(RootOn(h)) + 1, Len(t)), <<>>, <<>>))
    IN RootOn(h) \o JoinSegs(h, SubSeq(segs, 1, Len(segs) - 1))

basePathOn(h) == RootOn(h) \o <<"vault", SepOf(h), "note.md">>

\* src.replace(/\//g, '\\')
ReplaceSlashes(t) == [i \in 1..Len(t) |-> IF t[i] = "/" THEN "\\" ELSE t[i]]

\* the imagePath uploadContentImages computes for a local src
ResolveImagePath(h, src, base) ==
    IF src # <<>> /\ src[1] = "file:///"
    THEN resolveOn(h, ReplaceSlashes(Tail(src)))
    ELSE IF /\ base # <<>>
            /\ ~(src # <<>> /\ src[1] = "/")
            /\ ~(Len(src) >= 2 /\ src[1] \in Drives /\ src[2] = "/")
         THEN resolveFrom(h, dirnameOn(h, resolveOn(h, base)), src)
         ELSE resolveOn(h, ReplaceSlashes(src))

\* resolvePathRelativeTo(filePath, basePath)
resolvePathRelativeTo(h, filePath, base) ==
    IF resolveOn(h, filePath) = filePath THEN filePath
    ELSE resolveFrom(h, dirnameOn(h, resolveOn(h, base)), filePath)

\* the canonical absolute paths of a host with up to MaxDepth names
CanonicalOn(h) ==
    {RootOn(h) \o JoinSegs(h, [i \in 1..Len(q) |-> <<q[i]>>]) :
        q \in SeqsUpTo(Names, MaxDepth) \ {<<>>}}

\* Both resolutions are applied to a canonical absolute path, then to what
\* they returned.
ResolvePath ==
    /\ applied < MaxApplied
    /\ result' = [rewriter |-> ResolveImagePath(host, result.rewriter, basePathOn(host)),
                  relativeTo |-> resolvePathRelativeTo(host, result.relativeTo,
                                                       basePathOn(host))]
    /\ applied' = applied + 1
    /\ UNCHANGED <<clockVars, uploadedImageCache, serial, uploadLog, fs, running, pc,
                   access_token, htmlContent, updatedHtml, idx, firstLocalImagePath,
                   call, coverImageBuffer, defaultCoverPath, finalCoverBuffer, thumb,
                   outcome, stages, warnings, reqs, reads, resp, cacheOps, failed,
                   settings, env, data, host, text, modalVars>>

InitPath ==
    /\ InitPipeline
    /\ InitAccount
    /\ pc = [p \in Procs |-> "Off"]
    /\ fs = [q \in Paths |-> "missing"]
    /\ htmlContent = [p \in Procs |-> <<>>]
    /\ coverImageBuffer = [p \in Procs |-> None]
    /\ defaultCoverPath = [p \in Procs |-> NoPath]
    /\ host \in {"win32", "posix"}
    /\ text \in CanonicalOn(host)
    /\ result = [rewriter |-> text, relativeTo |-> text]
    /\ applied = 0

SpecPath == InitPath /\ [][ResolvePath]_vars

\* ---------------------------------------------------------- embedded links
\* The content of an embedded link ![[content]] is a sequence of UTF-16
\* code units: a letter, ":", ".", a space, "|", "(", a non-ASCII letter of
\* the basic plane, and the first half of an emoji's surrogate pair.
HighSurrogate == "<D83D>"
Chars == {"a", ":", ".", " ", "|", "(", "<E9>", HighSurrogate}

\* the characters the class [^a-zA-Z0-9:\/\\\-_.] does not match
AllowedChars == {"a", ":", ".", "/", "\\", "-", "_"}

\* the characters encodeURIComponent leaves as they are
UriUnreserved == {"a", "-", "_", ".", "!", "~", "*", "'", "(", ")"}

\* encodeURIComponent(char) of one code unit; a lone surrogate makes it throw
\* URIError, for which this operator has no value
encodeURIComponent(char) ==
    IF char \in UriUnreserved THEN char
    ELSE CASE char = " " -> "%20"
           [] char = ":" -> "%3A"
           [] char = "/" -> "%2F"
           [] char = "\\" -> "%5C"
           [] char = "|" -> "%7C"
           [] char = "<E9>" -> "%C3%A9"

\* content.split('|')[0]
RECURSIVE BeforeBar(_)
BeforeBar(content) ==
    IF content = <<>> \/ Head(content) = "|" THEN <<>>
    ELSE <<Head(content)>> \o BeforeBar(Tail(content))

\* String.prototype.trim
RECURSIVE TrimStart(_)
TrimStart(str) ==
    IF str # <<>> /\ Head(str) = " " THEN TrimStart(Tail(str)) ELSE str

RECURSIVE TrimEnd(_)
TrimEnd(str) ==
    IF str # <<>> /\ str[Len(str)] = " " THEN TrimEnd(SubSeq(str, 1, Len(str) - 1)) ELSE str

Trim(str) == TrimEnd(TrimStart(str))

\* const imagePath = content.split('|')[0].trim()
imagePathOf(content) == Trim(BeforeBar(content))

\* the callback of convertObsidianImages for one ![[content]]: the encoded
\* path put into ![](...), or the URIError thrown out of the replace
convertObsidianImages(content) ==
    LET path == imagePathOf(content)
        matched == {i \in 1..Len(path) : path[i] \notin AllowedChars}
    IN IF \E i \in matched : path[i] = HighSurrogate
       THEN [thrown |-> TRUE, path |-> <<>>]
       ELSE [thrown |-> FALSE,
             path |-> [i \in 1..Len(path) |->
                         IF i \in matched THEN encodeURIComponent(path[i]) ELSE path[i]]]

\* renderMarkdown converts the embedded link of the note
Convert ==
    /\ applied = 0
    /\ result' = convertObsidianImages(text)
    /\ applied' = 1
    /\ UNCHANGED <<clockVars, uploadedImageCache, serial, uploadLog, fs, running, pc,
                   access_token, htmlContent, updatedHtml, idx, firstLocalImagePath,
                   call, coverImageBuffer, defaultCoverPath, finalCoverBuffer, thumb,
                   outcome, stages, warnings, reqs, reads, resp, cacheOps, failed,
                   settings, env, data, host, text, modalVars>>

InitConvert ==
    /\ InitPipeline
    /\ InitAccount
    /\ pc = [p \in Procs |-> "Off"]
    /\ fs = [q \in Paths |-> "missing"]
    /\ htmlContent = [p \in Procs |-> <<>>]
    /\ coverImageBuffer = [p \in Procs |-> None]
    /\ defaultCoverPath = [p \in Procs |-> NoPath]
    /\ host = "win32"
    /\ text \in SeqsUpTo(Chars, MaxLen) \ {<<>>}
    /\ result = [thrown |-> FALSE, path |-> <<>>]
    /\ applied = 0

SpecConvert == InitConvert /\ [][Convert]_vars

\* ------------------------------------------------------------ preview modal
\* The publish button of a preview modal.  Each invocation is started by
\* one click; the modal may show any theme when its button is clicked.
Themes == {"default", "dark"}
Finished == {"Done", "Failed", "Rejected"}

\* a publishToWeChat call has returned to a click handler that has not yet
\* run on: its continuation runs before any other event
ReturnDue(p) == handler[p] = "awaiting" /\ pc[p] \in Finished

\* The click handler up to `await this.plugin.publishToWeChat(activeFile)`;
\* without an active markdown file it restores the theme at once.
PublishButtonClick(p) ==
    /\ running = None
    /\ \A q \in Procs : ~ReturnDue(q)
    /\ handler[p] = "idle"
    /\ \E t \in Themes, md \in BOOLEAN :
          /\ currentTheme' = [currentTheme EXCEPT ![p] = t]
          /\ originalTheme' = [originalTheme EXCEPT ![p] = theme]
          /\ IF md THEN /\ theme' = t
                        /\ handler' = [handler EXCEPT ![p] = "awaiting"]
                   ELSE /\ theme' = theme
                        /\ handler' = [handler EXCEPT ![p] = "returned"]
    /\ UNCHANGED <<clockVars, uploadedImageCache, serial, uploadLog, fs, running, pc,
                   access_token, htmlContent, updatedHtml, idx, firstLocalImagePath,
                   call, coverImageBuffer, defaultCoverPath, finalCoverBuffer, thumb,
                   outcome, stages, warnings, reqs, reads, resp, cacheOps, failed,
                   settings, env, data, pureVars>>

\* The rest of the click handler, after publishToWeChat has returned:
\* this.plugin.settings.theme = originalTheme
PublishButtonReturn(p) ==
    /\ ReturnDue(p)
    /\ theme' = originalTheme[p]
    /\ handler' = [handler EXCEPT ![p] = "returned"]
    /\ UNCHANGED <<originalTheme, currentTheme>>
    /\ UNCHANGED <<clockVars, uploadedImageCache, serial, uploadLog, fs, running, pc,
                   access_token, htmlContent, updatedHtml, idx, firstLocalImagePath,
                   call, coverImageBuffer, defaultCoverPath, finalCoverBuffer, thumb,
                   outcome, stages, warnings, reqs, reads, resp, cacheOps, failed,
                   settings, env, data, pureVars>>

InitPreview ==
    /\ InitCommon
    /\ InitAccount
    /\ pc = [p \in Procs |-> "Idle"]
    /\ fs = [q \in Paths |-> IF q \in {PathA, BundledJpg} THEN "ok" ELSE "missing"]
    /\ htmlContent = [p \in Procs |-> IF p = "p1" THEN <<ImgTag(SrcRelA)>> ELSE <<>>]
    /\ coverImageBuffer = [p \in Procs |-> None]
    /\ defaultCoverPath = [p \in Procs |-> NoPath]

\* The clicks, the publishes they start and the handlers' returns, within a
\* time too short for a cache entry to age (the clock stands still).
NextPreview ==
    \/ \E p \in Procs : PublishButtonClick(p)
    \/ \E p \in Procs : PublishButtonReturn(p)
    \/ \E p \in Procs : /\ handler[p] = "awaiting"
                         /\ \A q \in Procs : ~ReturnDue(q)
                         /\ Invoke(p)
    \/ \E p \in Procs, r \in Responses : (\A q \in Procs : ~ReturnDue(q)) /\ TokenResponse(p, r)
    \/ \E p \in Procs : RewriteStep(p)
    \/ \E p \in Procs, r \in Responses : (\A q \in Procs : ~ReturnDue(q)) /\ ContentUploadDone(p, r)
    \/ \E p \in Procs : RewriteDone(p)
    \/ \E p \in Procs : ResolveCover(p)
    \/ \E p \in Procs, r \in Responses : (\A q \in Procs : ~ReturnDue(q)) /\ CoverUploadDone(p, r)
    \/ \E p \in Procs, r \in Responses : (\A q \in Procs : ~ReturnDue(q)) /\ SubmitResponse(p, r)

SpecPreview == InitPreview /\ [][NextPreview]_vars

\* ------------------------------------------------------------------ claims
\* the invocation has called uploadImage and the call has not returned
Awaiting(p) == pc[p] \in {"AwaitContentUpload", "UploadCover"}

\* the successful uploads of the bytes of p's call that completed before the
\* call and whose cache entry was still valid when it was made
EarlierValid(p) ==
    {i \in 1..call[p].logLen :
        /\ uploadLog[i].hash = call[p].hash
        /\ call[p].at - uploadLog[i].at < cacheMaxAge}

\* the call in progress made no network request
NoRequestMade(p) == call[p].hit /\ Len(reqs[p]) = call[p].reqsBefore

\* C1 as stated: a call of uploadImage made after a successful upload of the
\* same bytes, within the validity of the entry that upload wrote, makes no
\* network request and returns the url and media_id of that upload.
C1_SameAsFirstCall ==
    \A p \in Procs : Awaiting(p) =>
        \A i \in EarlierValid(p) :
            /\ NoRequestMade(p)
            /\ call[p].url = uploadLog[i].url
            /\ call[p].media_id = uploadLog[i].media_id

\* C1 amended: such a call makes no network request and returns the url and
\* media_id of the latest successful upload of those bytes completed before
\* it; these are the first call's unless another upload of the same bytes
\* completed after the first.
C1_HitReturnsLatest ==
    \A p \in Procs : Awaiting(p) =>
        \A i \in EarlierValid(p) :
            /\ NoRequestMade(p)
            /\ (\A j \in EarlierValid(p) : j <= i) =>
                  /\ call[p].url = uploadLog[i].url
                  /\ call[p].media_id = uploadLog[i].media_id

\* a hit on bytes that two overlapping calls had both uploaded
C1_Witness ==
    \E p \in Procs :
        /\ Awaiting(p)
        /\ call[p].hit
        /\ Cardinality(EarlierValid(p)) >= 2

\* the upload p awaits settles successfully in this step
UploadSucceeds(p) ==
    /\ Awaiting(p)
    /\ pc[p] = "UploadCover" => pc'[p] = "SubmitArticle"
    /\ pc[p] = "AwaitContentUpload" => pc'[p] = "RewriteContentImages" /\ idx[p] \notin failed'[p]

\* the url or media_id the settled upload handed to its caller
ReturnedBy(p, entry) ==
    IF pc[p] = "UploadCover" THEN thumb'[p] = entry.media_id
    ELSE updatedHtml'[p][idx[p]].src = entry.url

\* C2: a call of uploadImage that finds the entry of its bytes older than the
\* validity window makes a new upload request; when that upload succeeds the
\* entry of the digest holds the url and media_id just returned, which no
\* earlier upload returned, and the time of that upload.
C2_ReuploadAfterExpiry ==
    /\ [](\A p \in Procs :
            (Awaiting(p) /\ call[p].entryAge > cacheMaxAge) =>
                /\ ~call[p].hit
                /\ Len(reqs[p]) = call[p].reqsBefore + 1
                /\ reqs[p][Len(reqs[p])] = MediaRequest(call[p].hash))
    /\ [][\A p \in Procs :
            (call[p].entryAge > cacheMaxAge /\ UploadSucceeds(p)) =>
                /\ call[p].hash \in DOMAIN uploadedImageCache'
                /\ uploadedImageCache'[call[p].hash].timestamp = now'
                /\ ReturnedBy(p, uploadedImageCache'[call[p].hash])
                /\ \A i \in 1..Len(uploadLog) :
                      uploadLog[i].url # uploadedImageCache'[call[p].hash].url]_vars

\* the bytes were uploaded, the entry expired, and a later call uploaded them
\* again: the cache holds the later upload
C2_Witness ==
    \E i, j \in 1..Len(uploadLog) :
        /\ i < j
        /\ uploadLog[i].hash = uploadLog[j].hash
        /\ uploadLog[j].at - uploadLog[i].at > cacheMaxAge
        /\ uploadLog[j].hash \in DOMAIN uploadedImageCache
        /\ uploadedImageCache[uploadLog[j].hash].timestamp = uploadLog[j].at
        /\ uploadedImageCache[uploadLog[j].hash].url = uploadLog[j].url

StageOrder == <<"AcquireCredential", "RewriteContentImages", "ResolveCover",
                "UploadCover", "SubmitArticle", "Done">>

IsPrefix(a, b) == Len(a) <= Len(b) /\ \A i \in 1..Len(a) : a[i] = b[i]

\* the stage a position of the invocation belongs to
StageOf(position) ==
    IF position = "AwaitContentUpload" THEN "RewriteContentImages" ELSE position

HasEntered(p, stage) == \E i \in 1..Len(stages[p]) : stages[p][i] = stage

\* the stage in which the invocation is, or was when it failed
LastStage(p) == stages[p][Len(stages[p])]

\* C3: the stages an invocation has entered are an initial part of
\* AcquireCredential, RewriteContentImages, ResolveCover, UploadCover,
\* SubmitArticle, Done: each entered once, in this order, none a second time;
\* the invocation is in the stage it entered last, and has sent one
\* credential request and at most one draft request.
C3_StagesInOrder ==
    \A p \in Procs :
        /\ IsPrefix(stages[p], StageOrder)
        /\ pc[p] \notin {"Idle", "Off", "Failed"} =>
              stages[p] # <<>> /\ StageOf(pc[p]) = LastStage(p)
        /\ Cardinality({i \in 1..Len(reqs[p]) : reqs[p][i].api = "token"}) <= 1
        /\ Cardinality({i \in 1..Len(reqs[p]) : reqs[p][i].api = "draft/add"}) <= 1

C3_Witness == \E p \in Procs : stages[p] = StageOrder /\ pc[p] = "Done"

HasFailed(p) == outcome[p] # <<>> /\ ~outcome[p][1].ok

HasDraftRequest(p) == \E i \in 1..Len(reqs[p]) : reqs[p][i].api = "draft/add"

\* C4: once an invocation has delivered an error it does nothing more (no
\* request, no file read, no cache operation, no stage, no second outcome);
\* a draft request has been sent only if a token was obtained, a cover was
\* resolved and its upload returned a media_id; the cover upload was called
\* only if a cover was resolved.
C4_NothingAfterAbort ==
    /\ [](\A p \in Procs :
            /\ HasDraftRequest(p) =>
                  /\ access_token[p] # None
                  /\ finalCoverBuffer[p] # None
                  /\ thumb[p] # <<>>
            /\ HasEntered(p, "UploadCover") => finalCoverBuffer[p] # None
            /\ HasFailed(p) =>
                  /\ pc[p] = "Failed"
                  /\ LastStage(p) = "AcquireCredential" => reqs[p] = <<TokenRequest>>
                  /\ LastStage(p) = "ResolveCover" => finalCoverBuffer[p] = None
                  /\ LastStage(p) # "SubmitArticle" => ~HasDraftRequest(p))
    /\ [][\A p \in Procs :
            HasFailed(p) =>
                /\ pc'[p] = pc[p]
                /\ reqs'[p] = reqs[p]
                /\ reads'[p] = reads[p]
                /\ cacheOps'[p] = cacheOps[p]
                /\ stages'[p] = stages[p]
                /\ outcome'[p] = outcome[p]]_vars

\* the cover upload of one invocation failed while the other goes on
C4_Witness ==
    \E p, q \in Procs :
        /\ HasFailed(p)
        /\ LastStage(p) = "UploadCover"
        /\ pc[q] = "SubmitArticle"

\* C5: an invocation that has ended has delivered exactly one outcome, a
\* media_id (Done) or one error (Failed), never both; one that has not ended
\* has delivered none, however many images failed.
C5_ExactlyOneOutcome ==
    \A p \in Procs :
        /\ Len(outcome[p]) <= 1
        /\ pc[p] \in {"Done", "Failed"} <=> Len(outcome[p]) = 1
        /\ pc[p] = "Done" =>
              /\ outcome[p][1].ok
              /\ outcome[p][1].media_id = DraftIdOf(p)
              /\ outcome[p][1].error = Err("", 0, "")
        /\ pc[p] = "Failed" =>
              /\ ~outcome[p][1].ok
              /\ outcome[p][1].media_id = <<>>
              /\ outcome[p][1].error.text # ""

\* two images failed and the invocation ended with one error
C5_Witness ==
    \E p \in Procs :
        /\ warnings[p] >= 2
        /\ pc[p] = "Failed"
        /\ Len(outcome[p]) = 1

\* the stage an error message names, None when it names none
StageNamedBy(err) ==
    CASE err.text = "token" -> "AcquireCredential"
      [] err.text = "cover" -> "ResolveCover"
      [] err.text = "upload" -> "UploadCover"
      [] err.text = "publish" -> "SubmitArticle"
      [] OTHER -> None

\* C6 as stated: the error of a failed invocation names the stage in which
\* the invocation failed, whatever made the stage fail.
C6_ErrorNamesStage ==
    \A p \in Procs :
        pc[p] = "Failed" => StageNamedBy(outcome[p][1].error) = LastStage(p)

\* the credential request was answered with a non-zero errcode
CredentialRefused(p) ==
    /\ stages[p] = <<"AcquireCredential">>
    /\ resp[p].kind = "json"
    /\ HasErrcode(resp[p])

\* C7: when the credential response carries a non-zero errcode the invocation
\* has failed with the token error carrying that errcode and errmsg, has read
\* no file, has sent no request but the credential request, and has made no
\* cache operation; the step that consumes the response leaves the cache as
\* it is.
C7_CredentialError ==
    /\ [](\A p \in Procs :
            CredentialRefused(p) =>
                /\ pc[p] = "Failed"
                /\ outcome[p] = <<[ok |-> FALSE, media_id |-> <<>>,
                                   error |-> Err("token", resp[p].errcode, resp[p].errmsg)]>>
                /\ reads[p] = <<>>
                /\ reqs[p] = <<TokenRequest>>
                /\ cacheOps[p] = <<>>)
    /\ [][\A p \in Procs :
            (pc[p] = "AcquireCredential" /\ pc'[p] = "Failed") =>
                uploadedImageCache' = uploadedImageCache]_vars

\* a refused credential request while the cache holds an entry of the other
\* invocation
C7_Witness ==
    \E p \in Procs :
        /\ CredentialRefused(p)
        /\ pc[p] = "Failed"
        /\ DOMAIN uploadedImageCache # {}

\* positions of the document whose <img> is not skipped
LocalImgs(doc) == {j \in 1..Len(doc) : IsImg(doc[j]) /\ ~IsSkipped(doc[j].src)}

\* the paths of the non-skipped images among the first n tags, in order
RECURSIVE LocalPaths(_, _)
LocalPaths(doc, n) ==
    IF n = 0 THEN <<>>
    ELSE IF ~IsImg(doc[n]) \/ IsSkipped(doc[n].src) THEN LocalPaths(doc, n - 1)
         ELSE Append(LocalPaths(doc, n - 1), ImagePathOf(doc[n].src, basePath))

\* the rewriter has returned
Rewritten(p) == HasEntered(p, "ResolveCover")

\* C8: an invocation never fails in RewriteContentImages; while it is in that
\* stage every non-skipped image before the current one has been read, in
\* document order, whether or not earlier ones failed; and when the rewriter
\* has returned, every non-skipped image of the document was read.
C8_ImageFailuresAbsorbed ==
    \A p \in Procs :
        /\ pc[p] = "Failed" => LastStage(p) # "RewriteContentImages"
        /\ pc[p] = "RewriteContentImages" =>
              reads[p] = LocalPaths(htmlContent[p], idx[p] - 1)
        /\ pc[p] = "AwaitContentUpload" =>
              reads[p] = LocalPaths(htmlContent[p], idx[p])
        /\ pc[p] = "ResolveCover" =>
              /\ reads[p] = LocalPaths(htmlContent[p], Len(htmlContent[p]))
              /\ failed[p] \subseteq LocalImgs(htmlContent[p])
        /\ Rewritten(p) => idx[p] = Len(htmlContent[p]) + 1

\* two images failed (one of them the first), a later one was uploaded, and
\* the invocation went on to ResolveCover
C8_Witness ==
    \E p \in Procs :
        /\ pc[p] = "ResolveCover"
        /\ Cardinality(failed[p]) >= 2
        /\ 1 \in failed[p]
        /\ \E j \in LocalImgs(htmlContent[p]) : j > 1 /\ j \notin failed[p]

\* C9 as stated: the reference of an image whose read or upload failed is the
\* same in the rewritten document as in the input.
C9_FailedRefUnchanged ==
    \A p \in Procs :
        \A j \in failed[p] : updatedHtml[p][j].src = htmlContent[p][j].src

\* C10 as stated: after the rewrite a reference has been replaced exactly when
\* the read and the upload of its image succeeded, and there is one warning
\* per failed image.
C10_ReplacedIffUploaded ==
    \A p \in Procs :
        Rewritten(p) =>
            /\ \A j \in 1..Len(htmlContent[p]) :
                  (updatedHtml[p][j].src # htmlContent[p][j].src)
                      <=> (j \in LocalImgs(htmlContent[p]) /\ j \notin failed[p])
            /\ warnings[p] = Cardinality(failed[p])

\* the first element of a sequence of paths, NoPath when there is none
FirstOf(paths) == IF paths = <<>> THEN NoPath ELSE Head(paths)

\* C11: firstLocalImagePath is the resolved path of the earliest non-skipped
\* <img> the rewriter has reached, read or not, uploaded or not; it is unset
\* exactly when there is no such image; once set, no later image changes it.
C11_FirstLocalImage ==
    /\ [](\A p \in Procs :
            /\ pc[p] = "RewriteContentImages" =>
                  firstLocalImagePath[p] = FirstOf(LocalPaths(htmlContent[p], idx[p] - 1))
            /\ Rewritten(p) =>
                  /\ firstLocalImagePath[p] =
                        FirstOf(LocalPaths(htmlContent[p], Len(htmlContent[p])))
                  /\ firstLocalImagePath[p] = NoPath <=> LocalImgs(htmlContent[p]) = {})
    /\ [][\A p \in Procs :
            firstLocalImagePath[p] # NoPath =>
                firstLocalImagePath'[p] = firstLocalImagePath[p]]_vars

\* the rewriter returned the path of an image that could not be read, found
\* after a skipped reference and before another local image
C11_Witness ==
    \E p \in Procs :
        /\ Rewritten(p)
        /\ Len(htmlContent[p]) = 3
        /\ IsSkipped(htmlContent[p][1].src)
        /\ 2 \in failed[p]
        /\ 3 \in LocalImgs(htmlContent[p])
        /\ htmlContent[p][3].src # htmlContent[p][2].src
        /\ firstLocalImagePath[p] = ImagePathOf(htmlContent[p][2].src, basePath)

\* cover resolution has run and found a cover
CoverResolved(p) == HasEntered(p, "UploadCover")

\* cover resolution has run and found none
CoverMissing(p) == pc[p] = "Failed" /\ LastStage(p) = "ResolveCover"

\* the files cover resolution read, in order: the reads made after those of
\* the rewriter
CoverReadsMade(p) ==
    SubSeq(reads[p], Len(LocalPaths(htmlContent[p], Len(htmlContent[p]))) + 1,
           Len(reads[p]))

\* the file the cover bytes came from, NoPath when no file was read
CoverSource(p) ==
    IF CoverReadsMade(p) = <<>> THEN NoPath
    ELSE CoverReadsMade(p)[Len(CoverReadsMade(p))]

\* the candidate yields bytes: the file is there and can be read
Yields(path) == path # NoPath /\ path \in Paths /\ fs[path] = "ok"

\* C12: the cover is that of the first candidate that yields bytes, in the
\* order explicit cover, first local image, configured default,
\* default-cover.jpg, default-cover.png; a candidate is used only when no
\* candidate before it yields bytes, and with an explicit cover no file is
\* read for the cover.
C12_CoverFallback ==
    \A p \in Procs :
        CoverResolved(p) =>
            LET explicit == coverImageBuffer[p]
                local == firstLocalImagePath[p]
                configured == defaultCoverPath[p]
            IN CASE explicit # None ->
                        /\ finalCoverBuffer[p] = explicit
                        /\ CoverSource(p) = NoPath
                 [] explicit = None /\ Yields(local) ->
                        /\ CoverSource(p) = local
                        /\ finalCoverBuffer[p] = Content(local)
                 [] explicit = None /\ ~Yields(local) /\ Yields(configured) ->
                        /\ CoverSource(p) = configured
                        /\ finalCoverBuffer[p] = Content(configured)
                 [] explicit = None /\ ~Yields(local) /\ ~Yields(configured)
                       /\ Yields(BundledJpg) ->
                        /\ CoverSource(p) = BundledJpg
                        /\ finalCoverBuffer[p] = Content(BundledJpg)
                 [] OTHER ->
                        /\ Yields(BundledPng)
                        /\ CoverSource(p) = BundledPng
                        /\ finalCoverBuffer[p] = Content(BundledPng)

\* no explicit cover, no local image, a configured default that does not
\* exist and an existing default-cover.jpg: the cover is default-cover.jpg
C12_Witness ==
    \E p \in Procs :
        /\ CoverResolved(p)
        /\ coverImageBuffer[p] = None
        /\ htmlContent[p] = <<>>
        /\ defaultCoverPath[p] = ConfiguredCover
        /\ fs[ConfiguredCover] = "missing"
        /\ fs[BundledJpg] = "ok"
        /\ finalCoverBuffer[p] = "bytesJ"

\* no candidate yields cover bytes
NoCandidate(p) ==
    /\ coverImageBuffer[p] = None
    /\ ~Yields(firstLocalImagePath[p])
    /\ ~Yields(defaultCoverPath[p])
    /\ ~Yields(BundledJpg)
    /\ ~Yields(BundledPng)

\* C13: once cover resolution has run, it has failed with the missing-cover
\* error exactly when no candidate yields bytes (a candidate that is there
\* but cannot be read is passed over, it does not abort); and the step that
\* raises the error sends no request and leaves the cache alone, so that no
\* cover is uploaded and no draft submitted.
C13_MissingCover ==
    /\ [](\A p \in Procs :
            (CoverResolved(p) \/ CoverMissing(p)) =>
                /\ CoverMissing(p) <=> NoCandidate(p)
                /\ CoverMissing(p) =>
                      /\ outcome[p] = <<[ok |-> FALSE, media_id |-> <<>>,
                                         error |-> Err("cover", 0, "")]>>
                      /\ finalCoverBuffer[p] = None
                      /\ thumb[p] = <<>>
                      /\ ~HasDraftRequest(p)
                      /\ call[p] = NoCall)
    /\ [][\A p \in Procs :
            (pc[p] = "ResolveCover" /\ pc'[p] = "Failed") =>
                /\ reqs'[p] = reqs[p]
                /\ uploadedImageCache' = uploadedImageCache
                /\ cacheOps'[p] = cacheOps[p]]_vars

\* the missing-cover error although three candidates are there: the first
\* local image, the configured default and default-cover.jpg cannot be read
C13_Witness ==
    \E p \in Procs :
        /\ CoverMissing(p)
        /\ firstLocalImagePath[p] = PathA
        /\ defaultCoverPath[p] = ConfiguredCover
        /\ fs[PathA] = "unreadable"
        /\ fs[ConfiguredCover] = "unreadable"
        /\ fs[BundledJpg] = "unreadable"
        /\ CoverReadsMade(p) = <<PathA, ConfiguredCover, BundledJpg>>

\* the last response to a request of the stage the invocation is in carried
\* a non-zero errcode
Refused(p, stage) ==
    /\ stages[p] # <<>>
    /\ LastStage(p) = stage
    /\ resp[p].kind = "json"
    /\ HasErrcode(resp[p])

\* the invocation delivered exactly this error and nothing else
FailedWith(p, err) ==
    /\ pc[p] = "Failed"
    /\ outcome[p] = <<[ok |-> FALSE, media_id |-> <<>>, error |-> err]>>

\* C14: when the response to draft/add carries a non-zero errcode the
\* invocation has failed with the publish error holding that errcode and
\* errmsg: it is not Done, and the error is not a generic one.
C14_SubmitError ==
    \A p \in Procs :
        Refused(p, "SubmitArticle") =>
            /\ FailedWith(p, Err("publish", resp[p].errcode, resp[p].errmsg))
            /\ ~HasEntered(p, "Done")

\* a draft refused with errcode 45009 after the cover was uploaded
C14_Witness ==
    \E p \in Procs :
        /\ Refused(p, "SubmitArticle")
        /\ resp[p].errcode = 45009
        /\ resp[p].errmsg = "reach max api daily quota limit"
        /\ thumb[p] # <<>>
        /\ HasDraftRequest(p)

\* the entry of h is new or not what it was
Written(h) ==
    /\ h \in DOMAIN uploadedImageCache'
    /\ h \notin DOMAIN uploadedImageCache \/ uploadedImageCache'[h] # uploadedImageCache[h]

\* C15: when the response to the upload of the cover carries a non-zero
\* errcode the invocation has failed with the upload error holding that
\* errcode and errmsg; and an entry of the cache is written only in the step
\* in which an upload request for that digest is answered without error: the
\* entry holds the url or media_id handed to the caller and the time of the
\* step, and writing it is the last cache operation of that invocation.
C15_UploadErrorAndCacheWrite ==
    /\ [](\A p \in Procs :
            Refused(p, "UploadCover") =>
                FailedWith(p, Err("upload", resp[p].errcode, resp[p].errmsg)))
    /\ [][\A h \in Hashes :
            Written(h) =>
                \E p \in Procs :
                    /\ call[p].hash = h
                    /\ ~call[p].hit
                    /\ UploadSucceeds(p)
                    /\ pc[p] = "UploadCover" => resp'[p] = JsonOk
                    /\ ReturnedBy(p, uploadedImageCache'[h])
                    /\ uploadedImageCache'[h].timestamp = now'
                    /\ cacheOps'[p] = Append(cacheOps[p], <<"set", h>>)]_vars

\* the upload of the cover was refused: the cache holds the entry the other
\* invocation wrote and none for the cover
C15_Witness ==
    \E p \in Procs :
        /\ Refused(p, "UploadCover")
        /\ pc[p] = "Failed"
        /\ reqs[p][Len(reqs[p])] = MediaRequest("hashJ")
        /\ DOMAIN uploadedImageCache = {"hashA"}

\* an upload request of the invocation is awaiting its response
Outstanding(p) == Awaiting(p) /\ ~call[p].hit

\* the positions of the log with the uploads of the bytes of digest h
UploadsOf(h) == {i \in 1..Len(uploadLog) : uploadLog[i].hash = h}

\* C16: a call of uploadImage that found no valid entry has sent its own
\* upload request, also while another call for the same bytes awaits its
\* response, and a call sends none only when it found a valid entry; each
\* call whose upload succeeds writes the entry of the digest; so the entry of
\* a digest is the one written by the upload of those bytes that completed
\* last.
C16_NoInFlightDedup ==
    /\ [](\A p \in Procs :
            /\ Outstanding(p) =>
                  /\ Len(reqs[p]) = call[p].reqsBefore + 1
                  /\ reqs[p][Len(reqs[p])] = MediaRequest(call[p].hash)
            /\ (Awaiting(p) /\ call[p].hit) =>
                  (0 <= call[p].entryAge /\ call[p].entryAge < cacheMaxAge))
    /\ [](\A h \in DOMAIN uploadedImageCache :
            \E i \in UploadsOf(h) :
                /\ \A j \in UploadsOf(h) : j <= i
                /\ uploadedImageCache[h] = [url |-> uploadLog[i].url,
                                            media_id |-> uploadLog[i].media_id,
                                            timestamp |-> uploadLog[i].at])
    /\ [][\A p \in Procs :
            (Outstanding(p) /\ UploadSucceeds(p)) =>
                /\ call[p].hash \in DOMAIN uploadedImageCache'
                /\ ReturnedBy(p, uploadedImageCache'[call[p].hash])]_vars

\* two invocations uploaded the same bytes, the second started before the
\* first had completed (it completed within the validity of the first's
\* entry, which it would otherwise have hit); the entry is the second's
C16_Witness ==
    \E i, j \in 1..Len(uploadLog) :
        /\ i < j
        /\ uploadLog[i].hash = uploadLog[j].hash
        /\ uploadLog[i].by # uploadLog[j].by
        /\ uploadLog[j].at - uploadLog[i].at < cacheMaxAge
        /\ uploadLog[j].hash \in DOMAIN uploadedImageCache
        /\ uploadedImageCache[uploadLog[j].hash].url = uploadLog[j].url
        /\ uploadedImageCache[uploadLog[j].hash].url # uploadLog[i].url

\* the media-upload requests the invocation has sent so far
MediaCount(p) == Cardinality({i \in 1..Len(reqs[p]) : reqs[p][i].api = "add_material"})

\* C17 as stated: at every moment at most one media-upload request is
\* outstanding in the process.
C17_OneUploadAtATime ==
    Cardinality({p \in Procs : Outstanding(p)}) <= 1

\* C17 amended: each invocation processes its uploads one at a time: it
\* sends a media-upload request only when it has none outstanding, one at a
\* time, and then awaits the response; invocations are not serialised with
\* each other.
C17_OneUploadPerInvocation ==
    [][\A p \in Procs :
          MediaCount(p)' > MediaCount(p) =>
              /\ ~Outstanding(p)
              /\ MediaCount(p)' = MediaCount(p) + 1
              /\ Outstanding(p)']_vars

\* two invocations each await the response to an upload of the same bytes
C17_Witness ==
    \E p, q \in Procs :
        /\ p # q
        /\ Outstanding(p)
        /\ Outstanding(q)
        /\ call[p].hash = call[q].hash
        /\ MediaCount(p) = 1
        /\ MediaCount(q) = 1

\* the reference is on the platform's media domain, an http(s) URL or a
\* data: URI
SkipClass(src) ==
    \/ (Len(src) >= 3 /\ src[1] = "https:" /\ src[2] = "" /\ src[3] = "mmbiz.qpic.cn")
    \/ (Len(src) >= 3 /\ src[1] \in {"http:", "https:"} /\ src[2] = "")
    \/ (Len(src) >= 1 /\ src[1] \in DataPrefixed)

\* the rewriter is at an <img> whose reference is of the skipped class
AtSkipped(p) ==
    /\ pc[p] = "RewriteContentImages"
    /\ idx[p] <= Len(htmlContent[p])
    /\ htmlContent[p][idx[p]].tag = "img"
    /\ SkipClass(htmlContent[p][idx[p]].src)

\* C18: an <img> whose reference is of the skipped class is the same in the
\* rewritten document as in the input, whatever else was replaced; and the
\* step in which the rewriter passes it reads no file, sends no request,
\* leaves the cache and firstLocalImagePath alone, and logs no warning.
C18_SkippedUntouched ==
    /\ [](\A p \in Procs :
            HasEntered(p, "RewriteContentImages") =>
                \A j \in 1..Len(htmlContent[p]) :
                    (htmlContent[p][j].tag = "img" /\ SkipClass(htmlContent[p][j].src)) =>
                        updatedHtml[p][j] = htmlContent[p][j])
    /\ [][\A p \in Procs :
            (AtSkipped(p) /\ idx'[p] # idx[p]) =>
                /\ reads'[p] = reads[p]
                /\ reqs'[p] = reqs[p]
                /\ uploadedImageCache' = uploadedImageCache
                /\ firstLocalImagePath'[p] = firstLocalImagePath[p]
                /\ warnings'[p] = warnings[p]
                /\ updatedHtml'[p] = updatedHtml[p]
                /\ pc'[p] = "RewriteContentImages"]_vars

\* a document with a data: URI, a local image that was replaced, and an
\* image on the platform's domain: one read, one request
C18_Witness ==
    \E p \in Procs :
        /\ Rewritten(p)
        /\ htmlContent[p] = <<ImgTag(SrcData), ImgTag(SrcRelA), ImgTag(SrcMmbiz)>>
        /\ updatedHtml[p][2].src # SrcRelA
        /\ updatedHtml[p][1] = ImgTag(SrcData)
        /\ updatedHtml[p][3] = ImgTag(SrcMmbiz)
        /\ firstLocalImagePath[p] = PathA
        /\ MediaCount(p) = 1

\* C19 as stated: the rewritten document differs from the input only at the
\* src of <img> tags whose image was uploaded; everything else, in
\* particular a tag that is not an <img> and contains the same src="..."
\* text, is as in the input, in the same order.
C19_OnlyUploadedImagesChange ==
    \A p \in Procs :
        HasEntered(p, "RewriteContentImages") =>
            /\ Len(updatedHtml[p]) = Len(htmlContent[p])
            /\ \A j \in 1..Len(htmlContent[p]) :
                  /\ updatedHtml[p][j].tag = htmlContent[p][j].tag
                  /\ updatedHtml[p][j].src # htmlContent[p][j].src =>
                        /\ htmlContent[p][j].tag = "img"
                        /\ ~SkipClass(htmlContent[p][j].src)
                        /\ j \notin failed[p]

\* the invocation makes its cache lookup in this step
LooksUp(p, h) == call[p] = NoCall /\ call'[p] # NoCall /\ call'[p].hash = h

\* C20: the cache maps each digest to at most one entry, which is the record
\* of one upload of those bytes; a step in which a call hits leaves the whole
\* cache as it was (the timestamp is not refreshed); an entry that is
\* replaced is replaced as a whole, by the url, media_id and time of an
\* upload that succeeds in that step; an entry is removed only by a lookup
\* of its digest that finds it cacheMaxAge old or older.
C20_EntriesImmutable ==
    /\ [](/\ DOMAIN uploadedImageCache \subseteq Hashes
          /\ \A h \in DOMAIN uploadedImageCache :
                Cardinality({i \in UploadsOf(h) :
                    uploadedImageCache[h] = [url |-> uploadLog[i].url,
                                             media_id |-> uploadLog[i].media_id,
                                             timestamp |-> uploadLog[i].at]}) = 1)
    /\ [][\A p \in Procs :
            (call[p] = NoCall /\ call'[p] # NoCall /\ call'[p].hit) =>
                uploadedImageCache' = uploadedImageCache]_vars
    /\ [][\A h \in DOMAIN uploadedImageCache :
            /\ (h \in DOMAIN uploadedImageCache'
                  /\ uploadedImageCache'[h] # uploadedImageCache[h]) =>
                  /\ uploadedImageCache'[h].url # uploadedImageCache[h].url
                  /\ uploadedImageCache'[h].media_id # uploadedImageCache[h].media_id
                  /\ uploadedImageCache'[h].timestamp = now'
                  /\ \E p \in Procs :
                        Outstanding(p) /\ call[p].hash = h /\ UploadSucceeds(p)
            /\ h \notin DOMAIN uploadedImageCache' =>
                  /\ now - uploadedImageCache[h].timestamp >= cacheMaxAge
                  /\ \E p \in Procs : LooksUp(p, h) /\ ~call'[p].hit]_vars

\* a call hit an entry written earlier, after time had passed: the entry
\* still has the time of the upload
C20_Witness ==
    \E p \in Procs :
        /\ Awaiting(p)
        /\ call[p].hit
        /\ call[p].entryAge > 0
        /\ now = call[p].at
        /\ call[p].hash \in DOMAIN uploadedImageCache
        /\ uploadedImageCache[call[p].hash].timestamp = now - call[p].entryAge

\* the earlier valid uploads of the bytes of p's call made under another
\* file name
EarlierUnderOtherName(p) ==
    {i \in EarlierValid(p) : uploadLog[i].filename # call[p].filename}

\* C21 as stated: a call of uploadImage made within the validity of the
\* entry written by an upload of the same bytes under another file name makes
\* no request and returns the url and media_id of that upload.
C21_SameAsFirstUpload ==
    \A p \in Procs : Awaiting(p) =>
        \A i \in EarlierUnderOtherName(p) :
            /\ NoRequestMade(p)
            /\ call[p].url = uploadLog[i].url
            /\ call[p].media_id = uploadLog[i].media_id

\* C21 amended: the digest has one entry whatever the file names: such a
\* call makes no request and returns what the entry holds, the url and
\* media_id of the latest successful upload of those bytes, under whatever
\* file name, by whichever invocation.
C21_SharedEntry ==
    \A p \in Procs : Awaiting(p) =>
        \A i \in EarlierUnderOtherName(p) :
            /\ NoRequestMade(p)
            /\ (\A j \in EarlierValid(p) : j <= i) =>
                  /\ call[p].url = uploadLog[i].url
                  /\ call[p].media_id = uploadLog[i].media_id

\* copy.png hits the entry written by the upload of a.png, in the same
\* invocation
C21_Witness ==
    \E p \in Procs :
        /\ pc[p] = "AwaitContentUpload"
        /\ call[p].hit
        /\ call[p].filename = "copy.png"
        /\ uploadLog # <<>>
        /\ uploadLog[Len(uploadLog)].filename = "a.png"
        /\ uploadLog[Len(uploadLog)].by = p
        /\ call[p].url = uploadLog[Len(uploadLog)].url

\* the earlier valid uploads of the bytes of p's call made with another
\* access token
EarlierUnderOtherToken(p) ==
    {i \in EarlierValid(p) : uploadLog[i].token # call[p].token}

\* C30: a call of uploadImage made while an entry for the digest is valid is
\* a hit whatever access token it is given: when the entry was written by an
\* upload under another account's token the call still makes no request and
\* returns the url and media_id the entry holds (those of the latest
\* successful upload of the bytes), so an identifier uploaded under one
\* account is reused under the other.
C30_HitIgnoresAccount ==
    \A p \in Procs : Awaiting(p) =>
        \A i \in EarlierUnderOtherToken(p) :
            /\ NoRequestMade(p)
            /\ call[p].url # <<>>
            /\ (\A j \in EarlierValid(p) : j <= i) =>
                  /\ call[p].url = uploadLog[i].url
                  /\ call[p].media_id = uploadLog[i].media_id

\* the cover of the publish under account wxB is the media_id uploaded with
\* the token of account wxA
C30_Witness ==
    /\ AppId("p2") = "wxB"
    /\ pc["p2"] = "UploadCover"
    /\ call["p2"].hit
    /\ call["p2"].token = TokenOf("wxB")
    /\ uploadLog # <<>>
    /\ uploadLog[Len(uploadLog)].token = TokenOf("wxA")
    /\ call["p2"].media_id = uploadLog[Len(uploadLog)].media_id

IssuesUpload(p) ==
    /\ Len(reqs'[p]) = Len(reqs[p]) + 1
    /\ reqs'[p][Len(reqs'[p])].api = "add_material"

\* C28: within one invocation the content images are read and uploaded in
\* document order, one at a time: the position in the document only moves
\* forward by one, the files read so far are those of the local images up to
\* that position in their order, an upload request is issued only when no
\* upload of the invocation is in flight and is for the image at the current
\* position, and the cover's request is issued only when the position is
\* past the last reference.
C28_InOrderOneAtATime ==
    /\ [](\A p \in Procs :
            /\ pc[p] = "RewriteContentImages" =>
                  reads[p] = LocalPaths(htmlContent[p], idx[p] - 1)
            /\ pc[p] = "AwaitContentUpload" =>
                  /\ idx[p] \in LocalImgs(htmlContent[p])
                  /\ reads[p] = LocalPaths(htmlContent[p], idx[p])
                  /\ call[p].hash =
                        getFileHash(Content(ImagePathOf(htmlContent[p][idx[p]].src, basePath)))
            /\ pc[p] = "UploadCover" => idx[p] = Len(htmlContent[p]) + 1)
    /\ [][\A p \in Procs :
            /\ idx'[p] \in {idx[p], idx[p] + 1}
            /\ IssuesUpload(p) =>
                  /\ ~Outstanding(p)
                  /\ call[p] = NoCall
                  /\ reqs'[p][Len(reqs'[p])].hash = call'[p].hash
                  /\ pc'[p] \in {"AwaitContentUpload", "UploadCover"}
                  /\ pc'[p] = "AwaitContentUpload" => idx'[p] = idx[p]
                  /\ pc'[p] = "UploadCover" => idx[p] = Len(htmlContent[p]) + 1]_vars

\* the cover's upload is in flight after the uploads of two content images,
\* a.png then b.png, were requested in that order
C28_Witness ==
    \E p \in Procs :
        /\ pc[p] = "UploadCover"
        /\ Outstanding(p)
        /\ Len(htmlContent[p]) = 3
        /\ LocalPaths(htmlContent[p], 3) = <<PathA, PathB>>
        /\ reads[p][1] = PathA /\ reads[p][2] = PathB
        /\ MediaCount(p) = 3
        /\ \E i, j \in 1..Len(reqs[p]) :
              /\ i < j
              /\ reqs[p][i].hash = getFileHash(Content(PathA))
              /\ reqs[p][j].hash = getFileHash(Content(PathB))

\* q is invoked in this step while the invocation p has aborted
InvokedAfterAbortOf(q, p) ==
    p # q /\ pc[p] = "Failed" /\ pc[q] = "Idle" /\ pc'[q] # "Idle"

\* C23: an invocation made after another one aborted starts at
\* AcquireCredential with a credential request of its own and nothing of the
\* aborted one (no access token, no position in the document, no rewritten
\* text, no cover, and the cache as it is); it then scans its document from
\* the first reference and reads every local image of it; and its uploads of
\* bytes the aborted invocation uploaded within the validity window are cache
\* hits that make no request.
C23_NoResumption ==
    /\ [][\A p, q \in Procs :
            /\ InvokedAfterAbortOf(q, p) =>
                  /\ pc'[q] = "AcquireCredential"
                  /\ stages'[q] = <<"AcquireCredential">>
                  /\ reqs'[q] = <<TokenRequest>>
                  /\ access_token'[q] = None
                  /\ idx'[q] = 0 /\ reads'[q] = <<>> /\ updatedHtml'[q] = <<>>
                  /\ firstLocalImagePath'[q] = NoPath /\ thumb'[q] = <<>>
                  /\ uploadedImageCache' = uploadedImageCache
            /\ (pc[q] = "AcquireCredential" /\ pc'[q] = "RewriteContentImages") =>
                  /\ idx'[q] = 1
                  /\ updatedHtml'[q] = htmlContent[q]
                  /\ reads'[q] = <<>>]_vars
    /\ [](\A p, q \in Procs : (p # q /\ pc[p] = "Failed") =>
            /\ Rewritten(q) =>
                  IsPrefix(LocalPaths(htmlContent[q], Len(htmlContent[q])), reads[q])
            /\ (Awaiting(q) /\ \E i \in EarlierValid(q) : uploadLog[i].by = p) =>
                  NoRequestMade(q))

\* after p aborted at the draft submission, q has requested a credential of
\* its own, read a.png again and its upload is a hit on the entry p wrote
C23_Witness ==
    \E p, q \in Procs :
        /\ p # q
        /\ pc[p] = "Failed"
        /\ HasEntered(p, "SubmitArticle")
        /\ pc[q] = "AwaitContentUpload"
        /\ reqs[q] = <<TokenRequest>>
        /\ reads[q] = <<PathA>>
        /\ call[q].hit
        /\ \A i \in 1..Len(uploadLog) : uploadLog[i].by = p
        /\ call[q].url = uploadLog[Len(uploadLog)].url

\* the publish command lacks a credential (after the environment fallback)
\* or the title
LacksRequired(p) ==
    AppId(p) = "" \/ AppSecret(p) = "" \/ data[p].title = ""

\* C27: a publish command given without App ID or App Secret (settings, then
\* MP_APP_ID / MP_APP_SECRET) or without a title never starts the pipeline:
\* it enters no stage, sends no request, reads no image, writes nothing to
\* the cache and returns no result; and the step that rejects it leaves the
\* cache as it was.
C27_NeverStartedWithoutInputs ==
    /\ [](\A p \in Procs : LacksRequired(p) =>
            /\ pc[p] \in {"Idle", "Rejected", "Off"}
            /\ stages[p] = <<>>
            /\ reqs[p] = <<>>
            /\ reads[p] = <<>>
            /\ cacheOps[p] = <<>>
            /\ outcome[p] = <<>>
            /\ uploadedImageCache = <<>>)
    /\ [][\A p \in Procs : (LacksRequired(p) /\ pc[p] = "Idle" /\ pc'[p] # "Idle") =>
            /\ pc'[p] = "Rejected"
            /\ uploadedImageCache' = uploadedImageCache
            /\ reqs' = reqs]_vars

\* a command with credentials from the environment but no title has been
\* rejected
C27_Witness ==
    \E p \in Procs :
        /\ pc[p] = "Rejected"
        /\ settings[p].appId = "" /\ AppId(p) = "wxB"
        /\ AppSecret(p) # ""
        /\ data[p].title = ""
        /\ reqs[p] = <<>>

\* the positions of the draft/add requests of p
DraftRequests(p) == {i \in 1..Len(reqs[p]) : reqs[p][i].api = "draft/add"}

\* C24: an invocation sends at most one draft/add request, and exactly one
\* once it has reached the submission; that request is its last one and
\* carries the document as rewritten (every local image that was uploaded has
\* its remote url), the title, author and description of the front matter,
\* and as thumb_media_id the media_id its cover upload returned, which is
\* one uploaded (by some upload) for the bytes of its cover.
C24_DraftCarriesRewritten ==
    \A p \in Procs :
        /\ Cardinality(DraftRequests(p)) <= 1
        /\ pc[p] \in {"SubmitArticle", "Done"} =>
              /\ DraftRequests(p) = {Len(reqs[p])}
              /\ LET draft == reqs[p][Len(reqs[p])]
                 IN /\ draft.content = updatedHtml[p]
                    /\ \A j \in LocalImgs(htmlContent[p]) \ failed[p] :
                          /\ \E i \in 1..Len(uploadLog) :
                                uploadLog[i].url = draft.content[j].src
                          /\ draft.content[j].src # htmlContent[p][j].src
                    /\ draft.title = data[p].title
                    /\ draft.author = data[p].author
                    /\ draft.digest = data[p].description
                    /\ draft.thumb_media_id = thumb[p]
                    /\ \E i \in 1..Len(uploadLog) :
                          /\ uploadLog[i].hash = getFileHash(finalCoverBuffer[p])
                          /\ uploadLog[i].media_id = draft.thumb_media_id

\* a publish with author and description is Done and its one draft request
\* holds the document with the image's remote url
C24_Witness ==
    \E p \in Procs :
        /\ pc[p] = "Done"
        /\ data[p].author = "Ann" /\ data[p].description = "Summary"
        /\ htmlContent[p] = <<ImgTag(SrcRelA)>>
        /\ failed[p] = {}
        /\ reqs[p][Len(reqs[p])].content # htmlContent[p]
        /\ reqs[p][Len(reqs[p])].digest = "Summary"
        /\ reqs[p][Len(reqs[p])].thumb_media_id = uploadLog[Len(uploadLog)].media_id

\* C22: when every request is answered and every continuation is run, an
\* invocation that has begun (its credential request is out) reaches Done or
\* Failed, whatever the document and whichever reads and uploads fail; it
\* then has delivered exactly one result.
C22_RunsToCompletion ==
    \A p \in Procs :
        (pc[p] = "AcquireCredential") ~>
            (pc[p] \in {"Done", "Failed"} /\ Len(outcome[p]) = 1)

\* a publish of two references, with a file that could not be read and an
\* upload that was refused, is Done
C22_Witness ==
    \E p \in Procs :
        /\ pc[p] = "Done"
        /\ Len(htmlContent[p]) = 2
        /\ warnings[p] = 2
        /\ \E i \in failed[p] : ~CanRead(fs, ImagePathOf(htmlContent[p][i].src, basePath))
        /\ \E i \in failed[p] : CanRead(fs, ImagePathOf(htmlContent[p][i].src, basePath))

\* C25 as stated: the rewriter's resolution of a canonical absolute path of
\* the host returns that path, the first time and when applied again to what
\* it returned.
C25_ResolveIdempotent ==
    applied >= 1 => result.rewriter = text

\* the forms a percent-encoded character takes
PercentEncoded == {"%20", "%3A", "%2F", "%5C", "%7C", "%28", "%C3%A9", "%F0%9F%98%80"}

\* C26 as stated: the conversion of ![[content]] yields the content up to
\* its first "|", trimmed, where every character of the allowed set (the
\* colon included) stands as it is and every other character stands
\* percent-encoded, a space as %20.
C26_EncodesOutsideAllowed ==
    applied = 1 =>
        LET path == Trim(BeforeBar(text))
        IN /\ ~result.thrown
           /\ Len(result.path) = Len(path)
           /\ \A i \in 1..Len(path) :
                 /\ path[i] \in AllowedChars => result.path[i] = path[i]
                 /\ path[i] \notin AllowedChars => result.path[i] \in PercentEncoded
                 /\ path[i] = " " => result.path[i] = "%20"

\* C31 as stated: when no publish started from a preview modal is still
\* under way, settings.theme is what it was before the first of them
\* started, also when two of them overlapped.
C31_ThemeRestored ==
    (\A p \in Procs : handler[p] # "awaiting") => theme = "default"

====
